---- MODULE Spec2Model ----
(***************************************************************************)
(* A model of rathole (tanetakumi/rathole): the port allocator, the        *)
(* server's per-connection tasks (control channel, visitor acceptor, data  *)
(* channel dispatch), the tunnel client and its control loop.              *)
(*                                                                         *)
(* Specifications:                                                         *)
(*   SpecAlloc  PortAllocator::allocate / release, step by step at their   *)
(*              suspension points, called by concurrent callers.           *)
(*   Spec       the server (accept loop, control channels, visitor         *)
(*              acceptors, data channel dispatch) with tunnel clients,     *)
(*              visitors and other peers; time passes in 10 s ticks.       *)
(*   SpecLoop   the client's control_channel_loop under run_client's       *)
(*              retry, against a peer that sends, pauses or closes; time   *)
(*              passes in seconds.                                         *)
(*   SpecProto  Message::write_to / read_from over a byte stream that      *)
(*              holds a written frame or arbitrary bytes.                  *)
(*   SpecPump   the two-way byte pump of forward_traffic and               *)
(*              create_data_channel between two peers.                     *)
(*   SpecSig    main, the ctrl_c task, start_tunnel, run_client's retry    *)
(*              and Tunnel::shutdown, under fair scheduling.               *)
(*   SpecListen the server with clients and visitors, accept() of a public *)
(*              listener failing at any time.                              *)
(*   SpecCtl    one control channel's writer path: the acceptor's ctrl_q,  *)
(*              the control loop's select and write_to in its two writes.  *)
(*   SpecBeat   the Heartbeat frames of one channel: ticks and echoes of   *)
(*              both ends; time passes in seconds.                         *)
(*   SpecFrame  read_from inside a control loop's select!, the peer's      *)
(*              frames arriving write by write.                            *)
(***************************************************************************)
EXTENDS Integers, Sequences, FiniteSets, TLC

\* ------------------------------------------------------------------ bounds
\* number of ports of the configured range (the server uses 100)
NumPorts == 2
\* number of tasks calling the allocator concurrently
NumCallers == 2
\* TCP connections the server's control port receives in one run
MaxConns == 3
\* remote socket addresses (ip:port) the connections come from
NumAddrs == 2
\* tunnel clients (processes that call start_tunnel)
NumClients == 2
\* visitors connecting to the public ports
NumVisitors == 1
\* seconds of silence the control loop model counts up to
MaxSilence == 90
\* frames of the server the model lets wait unread at the client
MaxInbox == 2

\* bytes each side of a pumped pair writes
MaxBytes == 2
\* visitors one session's acceptor accepts in a run
MaxVisits == 3
\* Heartbeat frames one control loop writes in a run
MaxBeats == 2
\* Heartbeat frames the model lets be on the wire of one channel at a time
MaxFlight == 6
\* frames the peer of a control loop writes in a run
MaxFrames == 3

\* --------------------------------------------------------------- constants
PORT_RANGE_START == 35100
PORT_RANGE_END == PORT_RANGE_START + NumPorts
\* seconds
RETRY_INTERVAL == 3
HEARTBEAT_INTERVAL == 20
HEARTBEAT_TIMEOUT == 60

\* the range lo..hi of PortAllocator::new(lo..hi): hi is excluded
RangeAsInclusive == PORT_RANGE_START .. PORT_RANGE_END
Range == PORT_RANGE_START .. (PORT_RANGE_END - 1)

\* a u16 that is not a port of the range, as an argument of release
OutsidePort == PORT_RANGE_END
Callers == 1 .. NumCallers
NoCaller == 0
NoPort == 0
Conns == 1 .. MaxConns
NoConn == 0
Addrs == 1 .. NumAddrs
Clients == 1 .. NumClients
Visitors == 1 .. NumVisitors
NoVisitor == 0
NoClient == 0

VARIABLES
  allocated,    \* PortAllocator.allocated: the busy set
  osBound,      \* ports some socket of the machine is listening on, other than a probe
  lockHolder,   \* the task holding allocated.write(), or NoCaller
  kpc,          \* kpc[t]: where caller t is in allocate()
  cur,          \* cur[t]: the port the for loop of allocate() is at
  failed,       \* failed[t]: the ports whose bind probe failed in t's running call
  res,          \* res[t]: the port the last allocate() of t returned, or NoPort
  outstanding,  \* outstanding[p]: allocate() calls that returned p since p's last release
  freed         \* ports removed from the busy set by release and not allocated since

VARIABLES
  serverUp,     \* run_server is in its accept loop
  nconn,        \* connections made to the control port so far
  addr,         \* addr[c]: the remote SocketAddr of connection c
  owner,        \* owner[c]: the client process that opened c
  copen,        \* copen[c]: the client still holds its end of c
  first,        \* first[c]: what the server finds as c's first frame
  spc,          \* spc[c]: where the server task of connection c is
  fexp,         \* fexp[c]: the 10 s of the first-frame read have elapsed
  aport,        \* aport[c]: assigned_port of handle_control_channel(c)
  apc,          \* apc[c]: where the visitor acceptor task spawned for c is
  avis,         \* avis[c]: visitor_stream the acceptor of c holds
  pexp,         \* pexp[c]: the 10 s of the data_rx.recv() of c's acceptor have elapsed
  clients,      \* the sessions map: SocketAddr -> the connection whose ClientInfo it holds
  ctrl_q,       \* ctrl_q[c]: control_tx/control_rx of c (one CreateDataChannel per visitor)
  data_q,       \* data_q[c]: data_tx/data_rx of c (data channel streams)
  s2c,          \* s2c[c]: frames written by the server on c, not yet read by the client
  hbin,         \* hbin[c]: a Heartbeat frame of the client is unread at the server
  backlog,      \* backlog[c]: visitors connected to c's public listener, not yet accepted
  vst,          \* vst[v]: state of visitor v
  vdc           \* vdc[v]: the data channel v is pumped against

VARIABLES
  cpc,          \* cpc[k]: where client k is (start_tunnel, run_client)
  cconn,        \* cconn[k]: the control connection k is using
  tport         \* tport[k]: Tunnel.assigned_port of k's handle

VARIABLES
  lpc,          \* where run_client is: "loop" (control_channel_loop), "retry" (sleeping)
  hbTimer,      \* seconds until heartbeat_interval ticks next
  rdTimer,      \* seconds left of the timeout(HEARTBEAT_TIMEOUT, read_from) of this iteration
  silent,       \* seconds since the control loop last received a frame (or started)
  inbox,        \* Heartbeat frames of the server the client has not read yet
  peer,         \* the server as the client sees it: "alive", "paused" (sends nothing), "closed"
  lastErr       \* the error the control loop returned last

VARIABLES
  pin,          \* what the writer of the stream under test sends (the input)
  wire,         \* the bytes written to the stream, from its start
  fill,         \* further bytes the stream holds after `wire` (zero bytes), then EOF
  wlen,         \* the number of bytes write_to wrote
  rpc,          \* where read_from is
  rpos,         \* the number of bytes read_from has taken from the stream
  rlen,         \* len of read_from
  rmsg          \* the message read_from returned

VARIABLES
  pump,         \* forward_traffic: "running" until its select completes, then "done"
  psent,        \* psent[x]: the bytes side x has written to its connection
  psock,        \* psock[x]: bytes of x that arrived and that copy has not read yet
  pbuf,         \* pbuf[x]: bytes copy has read from x and not yet written to the other side
  pdlv,         \* pdlv[x]: the bytes written to the connection of x (delivered to x)
  pclosed,      \* pclosed[x]: "open", "eof" (x shut its writing side), "reset"
  pmark         \* pmark[x]: how many bytes x had written when the other side closed

VARIABLES
  smode,        \* the subcommand of the process: "server", "client" ("off": not run)
  reach,        \* the server accepts and answers the client's connections
  sigint,       \* SIGINT has been delivered to the process
  ctrlc,        \* where the task awaiting ctrl_c() is
  mainSig,      \* main's shutdown channel holds a value main's receiver has not taken
  tunSig,       \* the Tunnel's shutdown channel holds a value for run_client's receiver
  mpc,          \* where main is
  cgp,          \* where connect_and_get_port is
  rc,           \* where the spawned run_client is
  nap,          \* seconds left of the running sleep(RETRY_INTERVAL)
  estAfter      \* a tunnel establishment completed after the Tunnel's signal was sent

VARIABLES
  kacc,         \* visitors the acceptor of the session has accepted so far
  kst,          \* where the acceptor task is: "accept", "wait", "stopped"
  kq,           \* ctrl_q: the visitors whose CreateDataChannel is queued
  wst,          \* where the control loop is: "select", in write_to ("len", "data"), "done"
  wfr,          \* the frame the control loop is writing
  wout,         \* what was written on the control socket, one entry per write call
  whb,          \* a Heartbeat of the client is readable at the server
  wtick,        \* heartbeat_interval has a tick due
  wcli          \* the client holds its end of the control connection

VARIABLES
  bc2s,         \* Heartbeat frames on their way from the client to the server
  bs2c,         \* Heartbeat frames on their way from the server to the client
  bct,          \* seconds until the client's heartbeat_interval ticks
  bst           \* seconds until the server's heartbeat_interval ticks

VARIABLES
  fsent,        \* the messages the peer has written, in order
  fwire,        \* the bytes the peer has written on the connection
  fwst,         \* where the peer's write_to is: "idle", or "data" after the length prefix
  fpos,         \* the number of bytes the receiver has taken from the socket
  fheld,        \* the bytes the running read_from future holds
  fstage,       \* what the running read_from future is reading: "len", "data"
  flen,         \* len of the running read_from future
  fgot,         \* the messages read_from has returned to the loop, in order
  fst           \* the receiving loop: "loop" (at its select), "polling" (inside a
                \* poll of read_from), or "error" after a failed read

loopVars == <<lpc, hbTimer, rdTimer, silent, inbox, peer, lastErr>>
callVars == <<lockHolder, kpc, cur, failed, res, outstanding, freed>>
allocVars == <<allocated, osBound, lockHolder, kpc, cur, failed, res, outstanding, freed>>
connVars == <<nconn, addr, owner, copen, first>>
taskVars == <<spc, fexp, aport>>
accVars == <<apc, avis, pexp, backlog>>
visVars == <<vst, vdc>>
srvVars == <<serverUp, connVars, taskVars, accVars, visVars, clients, ctrl_q, data_q, s2c, hbin>>
cliVars == <<cpc, cconn, tport>>
protoVars == <<pin, wire, fill, wlen, rpc, rpos, rlen, rmsg>>
pumpVars == <<pump, psent, psock, pbuf, pdlv, pclosed, pmark>>
sigVars == <<smode, reach, sigint, ctrlc, mainSig, tunSig, mpc, cgp, rc, nap, estAfter>>
ctlVars == <<kacc, kst, kq, wst, wfr, wout, whb, wtick, wcli>>
beatVars == <<bc2s, bs2c, bct, bst>>
frameVars == <<fsent, fwire, fwst, fpos, fheld, fstage, flen, fgot, fst>>
chanVars == <<ctlVars, beatVars, frameVars>>
extVars == <<protoVars, pumpVars, sigVars, chanVars>>
vars == <<allocVars, srvVars, cliVars, loopVars, extVars>>

\* ------------------------------------------------------- protocol framing

\* protocol.rs:58  the largest declared length read_from accepts
MAX_MESSAGE_SIZE == 1024 * 1024

\* the byte (UTF-8 code) of each character the JSON texts are made of
Code ==
  ("\"" :> 34) @@ ("," :> 44) @@ (":" :> 58) @@ ("C" :> 67) @@
  ("D" :> 68) @@ ("H" :> 72) @@ ("R" :> 82) @@ ("T" :> 84) @@
  ("_" :> 95) @@ ("a" :> 97) @@ ("b" :> 98) @@ ("c" :> 99) @@
  ("d" :> 100) @@ ("e" :> 101) @@ ("g" :> 103) @@ ("h" :> 104) @@
  ("i" :> 105) @@ ("l" :> 108) @@ ("n" :> 110) @@ ("o" :> 111) @@
  ("p" :> 112) @@ ("q" :> 113) @@ ("r" :> 114) @@ ("s" :> 115) @@
  ("t" :> 116) @@ ("u" :> 117) @@ ("y" :> 121) @@ ("{" :> 123) @@
  ("}" :> 125)

\* s.as_bytes() of a text given as its characters
Bytes(s) == [i \in 1 .. Len(s) |-> Code[s[i]]]

\* protocol.rs:9-21  enum Message; `arg` is the u16 field of the two struct
\* variants (0 for the unit variants, whose JSON has no field)
TunnelRequest(p) == [type |-> "TunnelRequest", arg |-> p]
Heartbeat == [type |-> "Heartbeat", arg |-> 0]
NoMessage == [type |-> "none", arg |-> 0]

\* the texts of #[serde(tag = "type")] and of the variant and field names
TagOpen == Bytes(<<"{", "\"", "t", "y", "p", "e", "\"", ":", "\"">>)
NameTunnelRequest == Bytes(<<"T", "u", "n", "n", "e", "l", "R", "e", "q", "u", "e", "s", "t">>)
NameTunnelResponse == Bytes(<<"T", "u", "n", "n", "e", "l", "R", "e", "s", "p", "o", "n", "s", "e">>)
NameCreateDataChannel == Bytes(<<"C", "r", "e", "a", "t", "e", "D", "a", "t", "a", "C", "h", "a", "n",
      "n", "e", "l">>)
NameHeartbeat == Bytes(<<"H", "e", "a", "r", "t", "b", "e", "a", "t">>)
FieldLocalPort == Bytes(<<",", "\"", "l", "o", "c", "a", "l", "_", "p", "o", "r", "t", "\"",
      ":">>)
FieldAssignedPort == Bytes(<<",", "\"", "a", "s", "s", "i", "g", "n", "e", "d", "_", "p", "o",
      "r", "t", "\"", ":">>)
Quote == Bytes(<<"\"">>)
CloseBrace == Bytes(<<"}">>)

\* the decimal digits of an unsigned integer, as serde_json writes a u16
RECURSIVE Itoa(_)
Itoa(n) == IF n < 10 THEN <<48 + n>> ELSE Append(Itoa(n \div 10), 48 + (n % 10))

\* protocol.rs:28  serde_json::to_string of a Message (internally tagged)
to_string(m) ==
  CASE m.type = "TunnelRequest" ->
         TagOpen \o NameTunnelRequest \o Quote \o FieldLocalPort \o Itoa(m.arg) \o CloseBrace
    [] m.type = "TunnelResponse" ->
         TagOpen \o NameTunnelResponse \o Quote \o FieldAssignedPort \o Itoa(m.arg) \o CloseBrace
    [] m.type = "CreateDataChannel" ->
         TagOpen \o NameCreateDataChannel \o Quote \o CloseBrace
    [] m.type = "Heartbeat" ->
         TagOpen \o NameHeartbeat \o Quote \o CloseBrace

\* protocol.rs:33-36  write_u32_le: the four bytes of n, lowest first
write_u32_be(n) ==
  <<(n \div 16777216) % 256, (n \div 65536) % 256, (n \div 256) % 256, n % 256>>
write_u32_le(n) ==
  <<n % 256, (n \div 256) % 256, (n \div 65536) % 256, (n \div 16777216) % 256>>

\* protocol.rs:52-55  read_u32_le of four bytes
read_u32_le(b) == b[1] + 256 * b[2] + 65536 * b[3] + 16777216 * b[4]

\* protocol.rs:26-47  the bytes write_to puts on the stream
write_to(m) == write_u32_le(Len(to_string(m))) \o to_string(m)

\* protocol.rs:58  the size guard of read_from
TooLargeFrom(len) == len >= MAX_MESSAGE_SIZE
TooLarge(len) == len > MAX_MESSAGE_SIZE

StartsWith(s, prefix) ==
  Len(s) >= Len(prefix) /\ SubSeq(s, 1, Len(prefix)) = prefix
Drop(s, n) == SubSeq(s, n + 1, Len(s))

\* the value of a run of decimal digits
RECURSIVE Atoi(_)
Atoi(d) ==
  IF d = <<>> THEN 0 ELSE 10 * Atoi(SubSeq(d, 1, Len(d) - 1)) + (d[Len(d)] - 48)

\* serde_json's u16: digits, no leading zero, at most 65535; -1 for an error
ParseU16(d) ==
  IF d = <<>> \/ Len(d) > 5 \/ (Len(d) > 1 /\ d[1] = 48)
     \/ \E i \in 1 .. Len(d) : d[i] \notin 48 .. 57
  THEN -1
  ELSE IF Atoi(d) > 65535 THEN -1 ELSE Atoi(d)

\* the rest of a struct variant after its name: ,"field":digits}
ParseField(rest, field, type) ==
  IF StartsWith(rest, field) /\ Len(rest) > Len(field) /\ rest[Len(rest)] = CloseBrace[1]
  THEN LET v == ParseU16(SubSeq(rest, Len(field) + 1, Len(rest) - 1))
       IN  IF v < 0 THEN NoMessage ELSE [type |-> type, arg |-> v]
  ELSE NoMessage

\* protocol.rs:70-74  String::from_utf8 and serde_json::from_str of the
\* payload, for payloads in serde_json's compact form (the tag first, no
\* white space); NoMessage stands for the error
from_str(json) ==
  IF ~StartsWith(json, TagOpen) THEN NoMessage
  ELSE LET body == Drop(json, Len(TagOpen)) IN
    CASE StartsWith(body, NameTunnelRequest \o Quote) ->
           ParseField(Drop(body, Len(NameTunnelRequest) + 1), FieldLocalPort, "TunnelRequest")
      [] StartsWith(body, NameTunnelResponse \o Quote) ->
           ParseField(Drop(body, Len(NameTunnelResponse) + 1), FieldAssignedPort, "TunnelResponse")
      [] body = NameCreateDataChannel \o Quote \o CloseBrace ->
           [type |-> "CreateDataChannel", arg |-> 0]
      [] body = NameHeartbeat \o Quote \o CloseBrace -> Heartbeat
      [] OTHER -> NoMessage

\* the u16 field values the framing is exercised with
PortValues == {0, 9, 10, 443, 8080, 35100, 65535}

\* the messages handed to write_to: the four variants
Messages ==
  {TunnelRequest(p) : p \in PortValues}
    \cup {[type |-> "TunnelResponse", arg |-> p] : p \in PortValues}
    \cup {[type |-> "CreateDataChannel", arg |-> 0], Heartbeat}

\* what follows a written frame on the stream: nothing, the next frame, a
\* stray byte
Trails == {<<>>, write_to(Heartbeat), <<123>>}

\* length prefixes a peer may send: 0, 1, 1 MiB - 1, 1 MiB, 1 MiB + 1,
\* 2 MiB, 2^31 - 1, and a prefix cut short by EOF
Headers ==
  {<<0, 0, 0, 0>>, <<1, 0, 0, 0>>, <<255, 255, 15, 0>>, <<0, 0, 16, 0>>,
   <<1, 0, 16, 0>>, <<0, 0, 32, 0>>, <<255, 255, 255, 127>>, <<1, 0>>}

\* the streams read_from is run on: a frame of write_to and what follows it,
\* or a length prefix followed by `avail` payload bytes and EOF
ProtoInputs ==
  {[kind |-> "msg", msg |-> m, hdr |-> <<>>, trail |-> t, avail |-> 0] :
     m \in Messages, t \in Trails}
    \cup {[kind |-> "raw", msg |-> NoMessage, hdr |-> h, trail |-> <<>>, avail |-> a] :
            h \in Headers, a \in {0, 5}}
    \cup {[kind |-> "raw", msg |-> NoMessage, hdr |-> h, trail |-> <<>>,
            avail |-> read_u32_le(h)] : h \in {g \in Headers : Len(g) = 4}}
NoInput == [kind |-> "none", msg |-> NoMessage, hdr |-> <<>>, trail |-> <<>>, avail |-> 0]

\* no stream yet, read_from not called
InitStream ==
  /\ wire = <<>>
  /\ fill = 0
  /\ wlen = 0
  /\ rpc = "idle"
  /\ rpos = 0
  /\ rlen = 0
  /\ rmsg = NoMessage

\* the two streams of forward_traffic(visitor, data)
Sides == {"visitor", "data"}
Other(x) == IF x = "visitor" THEN "data" ELSE "visitor"

\* server.rs:271-276  forward_traffic is called on two open streams
InitPump ==
  /\ pump = "running"
  /\ psent = [x \in Sides |-> <<>>]
  /\ psock = [x \in Sides |-> <<>>]
  /\ pbuf = [x \in Sides |-> <<>>]
  /\ pdlv = [x \in Sides |-> <<>>]
  /\ pclosed = [x \in Sides |-> "open"]
  /\ pmark = [x \in Sides |-> 0]

\* main.rs:48-56, tunnel.rs:70  the process has started: the channels are
\* empty, main is about to run its subcommand
InitMain ==
  /\ sigint = FALSE
  /\ ctrlc = "awaiting"
  /\ mainSig = FALSE
  /\ tunSig = FALSE
  /\ mpc = "start"
  /\ cgp = "connecting"
  /\ rc = "none"
  /\ nap = 0
  /\ estAfter = FALSE

\* server.rs:120-187  the session is established: the queues are empty, the
\* acceptor awaits its first visitor, the control loop is at its select
NoFrame == [type |-> "none", arg |-> 0]
InitCtl ==
  /\ kacc = 0
  /\ kst = "accept"
  /\ kq = <<>>
  /\ wst = "select"
  /\ wfr = NoFrame
  /\ wout = <<>>
  /\ whb = FALSE
  /\ wtick = FALSE
  /\ wcli = TRUE

\* client.rs:130, server.rs:187  both control loops start: nothing is on the
\* wire and the first tick of each interval is immediate
InitBeat ==
  /\ bc2s = 0
  /\ bs2c = 0
  /\ bct = 0
  /\ bst = 0

\* client.rs:132-135, server.rs:189-192  the loop is at its first select, the
\* peer has written nothing
InitFrame ==
  /\ fsent = <<>>
  /\ fwire = <<>>
  /\ fwst = "idle"
  /\ fpos = 0
  /\ fheld = <<>>
  /\ fstage = "len"
  /\ flen = 0
  /\ fgot = <<>>
  /\ fst = "loop"

InitChan == InitCtl /\ InitBeat /\ InitFrame

\* the state of the parts the specification at hand does not run
InitExt ==
  /\ pin = NoInput
  /\ InitStream
  /\ InitPump
  /\ smode = "off"
  /\ reach = FALSE
  /\ InitMain
  /\ InitChan

\* ---------------------------------------------------------- port allocator

\* port_allocator.rs:51-55  bind 0.0.0.0:port succeeds iff nothing listens on it
is_port_available(port, bound) == port \notin bound

\* port_allocator.rs:29  the ports the scan does not probe
IsBusyAlways(port, alloc) == FALSE
IsBusy(port, alloc) == port \in alloc

\* port_allocator.rs:25  allocated.write().await is granted when nobody holds it
WriteLockFreeAlways == TRUE
WriteLockFree == lockHolder = NoCaller

\* run_server, lines 27-35: the listener is bound, no session, no connection
InitServer ==
  /\ serverUp = TRUE
  /\ nconn = 0
  /\ addr = [c \in Conns |-> 0]
  /\ owner = [c \in Conns |-> 0]
  /\ copen = [c \in Conns |-> FALSE]
  /\ first = [c \in Conns |-> "none"]
  /\ spc = [c \in Conns |-> "free"]
  /\ fexp = [c \in Conns |-> FALSE]
  /\ aport = [c \in Conns |-> NoPort]
  /\ apc = [c \in Conns |-> "none"]
  /\ avis = [c \in Conns |-> NoVisitor]
  /\ pexp = [c \in Conns |-> FALSE]
  /\ clients = [a \in Addrs |-> NoConn]
  /\ ctrl_q = [c \in Conns |-> <<>>]
  /\ data_q = [c \in Conns |-> <<>>]
  /\ s2c = [c \in Conns |-> <<>>]
  /\ hbin = [c \in Conns |-> FALSE]
  /\ backlog = [c \in Conns |-> <<>>]
  /\ vst = [v \in Visitors |-> "idle"]
  /\ vdc = [v \in Visitors |-> NoConn]
  /\ cpc = [k \in Clients |-> "init"]
  /\ cconn = [k \in Clients |-> NoConn]
  /\ tport = [k \in Clients |-> NoPort]
  /\ lpc = "loop"
  /\ hbTimer = 0
  /\ rdTimer = HEARTBEAT_TIMEOUT
  /\ silent = 0
  /\ inbox = 0
  /\ peer = "alive"
  /\ lastErr = "none"

InitAllocator ==
  /\ allocated = {}
  /\ osBound = {}
  /\ lockHolder = NoCaller
  /\ kpc = [t \in Callers |-> "idle"]
  /\ cur = [t \in Callers |-> NoPort]
  /\ failed = [t \in Callers |-> {}]
  /\ res = [t \in Callers |-> NoPort]
  /\ outstanding = [p \in Range \cup {OutsidePort} |-> 0]
  /\ freed = {}

InitAlloc ==
  /\ InitServer
  /\ InitAllocator
  /\ InitExt

\* allocate(), line 25: take the write lock, line 28: start the scan
AllocLock(t) ==
  /\ kpc[t] = "idle"
  /\ WriteLockFree
  /\ lockHolder' = t
  /\ kpc' = [kpc EXCEPT ![t] = "scan"]
  /\ cur' = [cur EXCEPT ![t] = PORT_RANGE_START]
  /\ failed' = [failed EXCEPT ![t] = {}]
  /\ res' = [res EXCEPT ![t] = NoPort]
  /\ UNCHANGED <<allocated, osBound, outstanding, freed>>
  /\ UNCHANGED <<srvVars, cliVars, loopVars, extVars>>

\* allocate(), lines 28-29: the next port of the range; a busy one is passed over
AllocSkip(t) ==
  /\ kpc[t] = "scan"
  /\ cur[t] \in Range
  /\ IsBusy(cur[t], allocated)
  /\ cur' = [cur EXCEPT ![t] = cur[t] + 1]
  /\ UNCHANGED <<allocated, osBound, lockHolder, kpc, failed, res, outstanding, freed>>
  /\ UNCHANGED <<srvVars, cliVars, loopVars, extVars>>

\* allocate(), lines 29-31: a port that is not busy is probed (the bind suspends)
AllocProbe(t) ==
  /\ kpc[t] = "scan"
  /\ cur[t] \in Range
  /\ ~IsBusy(cur[t], allocated)
  /\ kpc' = [kpc EXCEPT ![t] = "probe"]
  /\ UNCHANGED <<allocated, osBound, lockHolder, cur, failed, res, outstanding, freed>>
  /\ UNCHANGED <<srvVars, cliVars, loopVars, extVars>>

\* allocate(), lines 31-34: the probe bound: record the port, drop the lock, return it
AllocOk(t) ==
  /\ kpc[t] = "probe"
  /\ is_port_available(cur[t], osBound)
  /\ allocated' = allocated \cup {cur[t]}
  /\ res' = [res EXCEPT ![t] = cur[t]]
  /\ outstanding' = [outstanding EXCEPT ![cur[t]] = @ + 1]
  /\ freed' = freed \ {cur[t]}
  /\ kpc' = [kpc EXCEPT ![t] = "ok"]
  /\ lockHolder' = IF lockHolder = t THEN NoCaller ELSE lockHolder
  /\ UNCHANGED <<osBound, cur, failed>>
  /\ UNCHANGED <<srvVars, cliVars, loopVars, extVars>>

\* allocate(), lines 31, 35: the probe failed to bind: go on with the next port
AllocProbeFail(t) ==
  /\ kpc[t] = "probe"
  /\ ~is_port_available(cur[t], osBound)
  /\ failed' = [failed EXCEPT ![t] = @ \cup {cur[t]}]
  /\ cur' = [cur EXCEPT ![t] = cur[t] + 1]
  /\ kpc' = [kpc EXCEPT ![t] = "scan"]
  /\ UNCHANGED <<allocated, osBound, lockHolder, res, outstanding, freed>>
  /\ UNCHANGED <<srvVars, cliVars, loopVars, extVars>>

\* allocate(), lines 38-42: the range is exhausted: bail, dropping the lock
AllocBail(t) ==
  /\ kpc[t] = "scan"
  /\ cur[t] \notin Range
  /\ kpc' = [kpc EXCEPT ![t] = "err"]
  /\ lockHolder' = IF lockHolder = t THEN NoCaller ELSE lockHolder
  /\ UNCHANGED <<allocated, osBound, cur, failed, res, outstanding, freed>>
  /\ UNCHANGED <<srvVars, cliVars, loopVars, extVars>>

\* the caller has taken the result of allocate(), or release() has returned;
\* the call's locals are gone and the caller may call again
AllocDone(t) ==
  /\ kpc[t] \in {"ok", "err", "released"}
  /\ kpc' = [kpc EXCEPT ![t] = "idle"]
  /\ cur' = [cur EXCEPT ![t] = NoPort]
  /\ failed' = [failed EXCEPT ![t] = {}]
  /\ res' = [res EXCEPT ![t] = NoPort]
  /\ UNCHANGED <<allocated, osBound, lockHolder, outstanding, freed>>
  /\ UNCHANGED <<srvVars, cliVars, loopVars, extVars>>

\* release(port), line 47: HashSet::remove
RemoveAll(alloc, port) == {}
Remove(alloc, port) == alloc \ {port}

\* release(port), lines 46-48: under the write lock, remove the port; the
\* call has returned and its argument is kept in cur[t] until the caller goes on
Release(t, port) ==
  /\ kpc[t] = "idle"
  /\ WriteLockFree
  /\ allocated' = Remove(allocated, port)
  /\ outstanding' = [outstanding EXCEPT ![port] = 0]
  /\ freed' = IF port \in allocated THEN freed \cup {port} ELSE freed
  /\ kpc' = [kpc EXCEPT ![t] = "released"]
  /\ cur' = [cur EXCEPT ![t] = port]
  /\ UNCHANGED <<osBound, lockHolder, failed, res>>
  /\ UNCHANGED <<srvVars, cliVars, loopVars, extVars>>

\* another socket of the machine starts or stops listening on a port of the range
OsBind(p) ==
  /\ p \notin osBound
  /\ osBound' = osBound \cup {p}
  /\ UNCHANGED <<allocated, lockHolder, kpc, cur, failed, res, outstanding, freed>>
  /\ UNCHANGED <<srvVars, cliVars, loopVars, extVars>>

OsUnbind(p) ==
  /\ p \in osBound
  /\ osBound' = osBound \ {p}
  /\ UNCHANGED <<allocated, lockHolder, kpc, cur, failed, res, outstanding, freed>>
  /\ UNCHANGED <<srvVars, cliVars, loopVars, extVars>>

NextAlloc ==
  \/ \E t \in Callers : AllocLock(t)
  \/ \E t \in Callers : AllocSkip(t)
  \/ \E t \in Callers : AllocProbe(t)
  \/ \E t \in Callers : AllocOk(t)
  \/ \E t \in Callers : AllocProbeFail(t)
  \/ \E t \in Callers : AllocBail(t)
  \/ \E t \in Callers : AllocDone(t)
  \/ \E t \in Callers, p \in Range \cup {OutsidePort} : Release(t, p)
  \/ \E p \in Range : OsBind(p)
  \/ \E p \in Range : OsUnbind(p)

SpecAlloc == InitAlloc /\ [][NextAlloc]_vars

\* ------------------------------------------------------------ server state

\* the ports a listener is bound on: the public listeners, owned by the
\* acceptor tasks (server.rs:107, moved into the task at 145), and foreign ones
BoundPorts ==
  {aport[c] : c \in {x \in Conns : apc[x] \in {"accept", "wait"}}} \cup osBound

\* port_allocator.rs:24-43  allocate() as one step: the first port of the range
\* that is not busy and binds, or NoPort for the bail
AllocateIgnoringProbe(alloc, bound) ==
  LET free == {p \in Range : ~IsBusy(p, alloc)}
  IN  IF free = {} THEN NoPort ELSE CHOOSE p \in free : \A q \in free : p <= q
AllocateResult(alloc, bound) ==
  LET free == {p \in Range : ~IsBusy(p, alloc) /\ is_port_available(p, bound)}
  IN  IF free = {} THEN NoPort ELSE CHOOSE p \in free : \A q \in free : p <= q

\* the frames the model keeps on the wire
TunnelResponse(p) == [type |-> "TunnelResponse", arg |-> p]
CreateDataChannel(v) == [type |-> "CreateDataChannel", arg |-> v]

\* the server's end of c is gone: its task has returned
ServerClosed(c) == spc[c] = "done"

\* a SocketAddr names one connection at a time: it is free again when both
\* ends of the connection that used it are closed
AddrInUse(a) ==
  \E c \in Conns : addr[c] = a /\ (copen[c] \/ spc[c] \notin {"free", "done"})

\* data_tx of c lives in the ClientInfo of the sessions map (server.rs:130-134)
DataTxAlive(c) == \E a \in Addrs : clients[a] = c

\* the streams of a sequence of data channels
StreamsOf(q) == {q[i] : i \in 1 .. Len(q)}

\* TcpStream::connect to the control port by client k from address a, with
\* what the client writes first (client.rs:70-78, 98-106, 184-186)
OpenConn(k, a, f) ==
  /\ serverUp
  /\ nconn < MaxConns
  /\ ~AddrInUse(a)
  /\ nconn' = nconn + 1
  /\ addr' = [addr EXCEPT ![nconn + 1] = a]
  /\ owner' = [owner EXCEPT ![nconn + 1] = k]
  /\ copen' = [copen EXCEPT ![nconn + 1] = TRUE]
  /\ first' = [first EXCEPT ![nconn + 1] = f]
  /\ spc' = [spc EXCEPT ![nconn + 1] = "syn"]

\* server.rs:229-235  clients.remove(&addr) and the release of the removed
\* entry's port
CleanupClients(c) == [clients EXCEPT ![addr[c]] = NoConn]
CleanupAllocated(c) ==
  IF clients[addr[c]] # NoConn
  THEN Remove(allocated, aport[clients[addr[c]]])
  ELSE allocated

\* server.rs:203/212/221 break, 227-237: the loop is left, the cleanup runs,
\* the task returns (stream and control_rx are dropped)
LoopBreak(c) ==
  /\ clients' = CleanupClients(c)
  /\ allocated' = CleanupAllocated(c)
  /\ spc' = [spc EXCEPT ![c] = "done"]
  /\ ctrl_q' = [ctrl_q EXCEPT ![c] = <<>>]

\* server.rs:196  `?` on the echo: the task returns from inside the loop
EarlyReturn(c) ==
  /\ spc' = [spc EXCEPT ![c] = "done"]
  /\ ctrl_q' = [ctrl_q EXCEPT ![c] = <<>>]
  /\ UNCHANGED <<clients, allocated>>

\* the acceptor task of c ends (server.rs:154, 169, 182): listener, data_rx
\* and the visitor it holds are dropped
AcceptorStop(c, v) ==
  /\ apc' = [apc EXCEPT ![c] = "stopped"]
  /\ avis' = [avis EXCEPT ![c] = NoVisitor]
  /\ backlog' = [backlog EXCEPT ![c] = <<>>]
  /\ vst' = [w \in Visitors |->
               IF w = v \/ w \in StreamsOf(backlog[c]) THEN "dropped" ELSE vst[w]]
  /\ data_q' = [data_q EXCEPT ![c] = <<>>]
  /\ spc' = [d \in Conns |-> IF d \in StreamsOf(data_q[c]) THEN "done" ELSE spc[d]]

\* ------------------------------------------------------------- run_server

\* server.rs:39-50  accept a connection and spawn handle_connection
Accept(c) ==
  /\ serverUp
  /\ spc[c] = "syn"
  /\ spc' = [spc EXCEPT ![c] = "first"]
  /\ fexp' = [fexp EXCEPT ![c] = FALSE]
  /\ UNCHANGED <<extVars, loopVars, allocVars, serverUp, connVars, aport, accVars, visVars, clients,
                 ctrl_q, data_q, s2c, hbin, cliVars>>

\* server.rs:56-59  the shutdown arm: run_server returns and the process ends
ServerShutdown ==
  /\ serverUp
  /\ serverUp' = FALSE
  /\ UNCHANGED <<extVars, loopVars, allocVars, connVars, taskVars, accVars, visVars, clients,
                 ctrl_q, data_q, s2c, hbin, cliVars>>

\* ------------------------------------------------------ handle_connection

\* server.rs:72-74  the first-frame read fails: EOF, or bytes that are no frame
FirstFrameError(c) ==
  /\ serverUp
  /\ spc[c] = "first"
  /\ first[c] = "garbage" \/ (first[c] = "none" /\ ~copen[c])
  /\ spc' = [spc EXCEPT ![c] = "done"]
  /\ UNCHANGED <<extVars, loopVars, allocVars, serverUp, connVars, fexp, aport, accVars, visVars,
                 clients, ctrl_q, data_q, s2c, hbin, cliVars>>

\* server.rs:72-74  no first frame within 10 s: the Elapsed error is returned
FirstFrameTimeout(c) ==
  /\ serverUp
  /\ spc[c] = "first"
  /\ first[c] = "none"
  /\ fexp[c]
  /\ spc' = [spc EXCEPT ![c] = "done"]
  /\ UNCHANGED <<extVars, loopVars, allocVars, serverUp, connVars, fexp, aport, accVars, visVars,
                 clients, ctrl_q, data_q, s2c, hbin, cliVars>>

\* ------------------------------------------------- handle_control_channel

\* server.rs:77-79, 99-102  allocate() fails: `?` returns the error
ControlAllocFail(c) ==
  /\ serverUp
  /\ spc[c] = "first"
  /\ first[c] = "TunnelRequest"
  /\ AllocateResult(allocated, BoundPorts) = NoPort
  /\ spc' = [spc EXCEPT ![c] = "done"]
  /\ UNCHANGED <<extVars, loopVars, allocVars, serverUp, connVars, fexp, aport, accVars, visVars,
                 clients, ctrl_q, data_q, s2c, hbin, cliVars>>

\* server.rs:99-115  a port is allocated and bound (no other program binds
\* ports of the range here, so the bind at line 107 succeeds after the probe
\* of allocate()), the write of TunnelResponse fails (the client is gone):
\* `?` returns, the listener drops
ControlResponseFail(c) ==
  /\ serverUp
  /\ spc[c] = "first"
  /\ first[c] = "TunnelRequest"
  /\ AllocateResult(allocated, BoundPorts) # NoPort
  /\ ~copen[c]
  /\ allocated' = allocated \cup {AllocateResult(allocated, BoundPorts)}
  /\ spc' = [spc EXCEPT ![c] = "done"]
  /\ UNCHANGED <<extVars, loopVars, osBound, callVars, serverUp, connVars, fexp, aport, accVars,
                 visVars, clients, ctrl_q, data_q, s2c, hbin, cliVars>>

\* server.rs:99-187  allocate, bind, respond, register the session, spawn the
\* acceptor, enter the loop
ControlEstablish(c) ==
  /\ serverUp
  /\ spc[c] = "first"
  /\ first[c] = "TunnelRequest"
  /\ AllocateResult(allocated, BoundPorts) # NoPort
  /\ LET p == AllocateResult(allocated, BoundPorts) IN
       /\ allocated' = allocated \cup {p}
       /\ aport' = [aport EXCEPT ![c] = p]
       /\ s2c' = [s2c EXCEPT ![c] = Append(@, TunnelResponse(p))]
  /\ clients' = [clients EXCEPT ![addr[c]] = c]
  /\ apc' = [apc EXCEPT ![c] = "accept"]
  /\ spc' = [spc EXCEPT ![c] = "loop"]
  /\ UNCHANGED <<extVars, loopVars, osBound, callVars, serverUp, connVars, fexp, avis, pexp, backlog,
                 visVars, ctrl_q, data_q, hbin, cliVars>>

\* server.rs:192-204  the read fails (the client closed): break and clean up
ReadEOF(c) ==
  /\ serverUp
  /\ spc[c] = "loop"
  /\ ~copen[c]
  /\ ~hbin[c]
  /\ LoopBreak(c)
  /\ UNCHANGED <<extVars, loopVars, osBound, callVars, serverUp, connVars, fexp, aport, accVars,
                 visVars, data_q, s2c, hbin, cliVars>>

\* server.rs:194-197  a Heartbeat is read and echoed
ServerEchoHeartbeat(c) ==
  /\ serverUp
  /\ spc[c] = "loop"
  /\ hbin[c]
  /\ hbin' = [hbin EXCEPT ![c] = FALSE]
  /\ UNCHANGED <<extVars, loopVars, allocVars, serverUp, connVars, taskVars, accVars, visVars,
                 clients, ctrl_q, data_q, s2c, cliVars>>

\* server.rs:194-197  a Heartbeat is read, the write of the echo fails (the
\* client has closed): `?` returns from the task
ServerEchoFail(c) ==
  /\ serverUp
  /\ spc[c] = "loop"
  /\ hbin[c]
  /\ ~copen[c]
  /\ hbin' = [hbin EXCEPT ![c] = FALSE]
  /\ EarlyReturn(c)
  /\ UNCHANGED <<extVars, loopVars, osBound, callVars, serverUp, connVars, fexp, aport, accVars,
                 visVars, data_q, s2c, cliVars>>

\* server.rs:209-214  a queued control message is written to the client
ServerSendCtrl(c) ==
  /\ serverUp
  /\ spc[c] = "loop"
  /\ ctrl_q[c] # <<>>
  /\ s2c' = [s2c EXCEPT ![c] = Append(@, CreateDataChannel(Head(ctrl_q[c])))]
  /\ ctrl_q' = [ctrl_q EXCEPT ![c] = Tail(@)]
  /\ UNCHANGED <<extVars, loopVars, allocVars, serverUp, connVars, taskVars, accVars, visVars,
                 clients, data_q, hbin, cliVars>>

\* server.rs:209-213  the write of a queued message fails: break and clean up
ServerSendCtrlFail(c) ==
  /\ serverUp
  /\ spc[c] = "loop"
  /\ ctrl_q[c] # <<>>
  /\ ~copen[c]
  /\ LoopBreak(c)
  /\ UNCHANGED <<extVars, loopVars, osBound, callVars, serverUp, connVars, fexp, aport, accVars,
                 visVars, data_q, s2c, hbin, cliVars>>

\* server.rs:217-222  the 20 s tick: a Heartbeat is written; if the write
\* fails (the client has closed) break and clean up
ServerHeartbeatTick(c) ==
  /\ serverUp
  /\ spc[c] = "loop"
  /\ \/ UNCHANGED vars
     \/ /\ ~copen[c]
        /\ LoopBreak(c)
        /\ UNCHANGED <<extVars, loopVars, osBound, callVars, serverUp, connVars, fexp, aport, accVars,
                       visVars, data_q, s2c, hbin, cliVars>>

\* ---------------------------------------------------- the visitor acceptor

\* a visitor connects to the public listener of c
VisitorConnect(v, c) ==
  /\ serverUp
  /\ vst[v] = "idle"
  /\ apc[c] \in {"accept", "wait"}
  /\ vst' = [vst EXCEPT ![v] = "backlog"]
  /\ backlog' = [backlog EXCEPT ![c] = Append(@, v)]
  /\ UNCHANGED <<extVars, loopVars, allocVars, serverUp, connVars, taskVars, apc, avis, pexp, vdc,
                 clients, ctrl_q, data_q, s2c, hbin, cliVars>>

\* server.rs:147-158  a visitor is accepted, CreateDataChannel is sent onto
\* ctrl_q, the wait for a data channel starts
AcceptVisitor(c) ==
  /\ serverUp
  /\ apc[c] = "accept"
  /\ backlog[c] # <<>>
  /\ spc[c] = "loop"
  /\ backlog' = [backlog EXCEPT ![c] = Tail(@)]
  /\ vst' = [vst EXCEPT ![Head(backlog[c])] = "waiting"]
  /\ avis' = [avis EXCEPT ![c] = Head(backlog[c])]
  /\ apc' = [apc EXCEPT ![c] = "wait"]
  /\ pexp' = [pexp EXCEPT ![c] = FALSE]
  /\ ctrl_q' = [ctrl_q EXCEPT ![c] = Append(@, Head(backlog[c]))]
  /\ UNCHANGED <<extVars, loopVars, allocVars, serverUp, connVars, taskVars, vdc, clients, data_q,
                 s2c, hbin, cliVars>>

\* server.rs:147-155  a visitor is accepted, control_rx is gone (the control
\* task has returned): the send fails, the acceptor ends
AcceptVisitorSendFail(c) ==
  /\ serverUp
  /\ apc[c] = "accept"
  /\ backlog[c] # <<>>
  /\ spc[c] # "loop"
  /\ AcceptorStop(c, Head(backlog[c]))
  /\ pexp' = pexp
  /\ UNCHANGED <<extVars, loopVars, allocVars, serverUp, connVars, fexp, aport, vdc, clients,
                 ctrl_q, s2c, hbin, cliVars>>

\* server.rs:158  data_rx.recv() takes the stream it returns out of the queue
DequeueNone(q) == q
Dequeue(q) == Tail(q)

\* server.rs:158-166  a data channel is received: the pump is spawned
PairVisitor(c) ==
  /\ serverUp
  /\ apc[c] = "wait"
  /\ data_q[c] # <<>>
  /\ vst' = [vst EXCEPT ![avis[c]] = "paired"]
  /\ vdc' = [vdc EXCEPT ![avis[c]] = Head(data_q[c])]
  /\ spc' = [spc EXCEPT ![Head(data_q[c])] = "pump"]
  /\ data_q' = [data_q EXCEPT ![c] = Dequeue(@)]
  /\ apc' = [apc EXCEPT ![c] = "accept"]
  /\ avis' = [avis EXCEPT ![c] = NoVisitor]
  /\ UNCHANGED <<extVars, loopVars, allocVars, serverUp, connVars, fexp, aport, pexp, backlog,
                 clients, ctrl_q, s2c, hbin, cliVars>>

\* server.rs:158, 171-173  no data channel within 10 s: the visitor is dropped
\* and the loop goes round to listener.accept()
PairingTimeoutBreaks(c) ==
  /\ serverUp
  /\ apc[c] = "wait"
  /\ data_q[c] = <<>>
  /\ DataTxAlive(c)
  /\ pexp[c]
  /\ vst' = [vst EXCEPT ![avis[c]] = "timedout"]
  /\ apc' = [apc EXCEPT ![c] = "stopped"]
  /\ avis' = [avis EXCEPT ![c] = NoVisitor]
  /\ UNCHANGED <<extVars, loopVars, allocVars, serverUp, connVars, taskVars, pexp, backlog, vdc,
                 clients, ctrl_q, data_q, s2c, hbin, cliVars>>
PairingTimeout(c) ==
  /\ serverUp
  /\ apc[c] = "wait"
  /\ data_q[c] = <<>>
  /\ DataTxAlive(c)
  /\ pexp[c]
  /\ vst' = [vst EXCEPT ![avis[c]] = "timedout"]
  /\ apc' = [apc EXCEPT ![c] = "accept"]
  /\ avis' = [avis EXCEPT ![c] = NoVisitor]
  /\ UNCHANGED <<extVars, loopVars, allocVars, serverUp, connVars, taskVars, pexp, backlog, vdc,
                 clients, ctrl_q, data_q, s2c, hbin, cliVars>>

\* server.rs:158, 167-170  data_tx is gone (the session was removed): recv
\* returns None, the acceptor ends
DataQueueClosed(c) ==
  /\ serverUp
  /\ apc[c] = "wait"
  /\ data_q[c] = <<>>
  /\ ~DataTxAlive(c)
  /\ AcceptorStop(c, avis[c])
  /\ pexp' = pexp
  /\ UNCHANGED <<extVars, loopVars, allocVars, serverUp, connVars, fexp, aport, vdc, clients,
                 ctrl_q, s2c, hbin, cliVars>>

\* server.rs:271-294  forward_traffic ends (one side closed): both streams drop
PumpEnd(v) ==
  /\ serverUp
  /\ vst[v] = "paired"
  /\ vst' = [vst EXCEPT ![v] = "closed"]
  /\ spc' = [spc EXCEPT ![vdc[v]] = "done"]
  /\ UNCHANGED <<extVars, loopVars, allocVars, serverUp, connVars, fexp, aport, accVars, vdc,
                 clients, ctrl_q, data_q, s2c, hbin, cliVars>>

\* ---------------------------------------------------- handle_data_channel

\* server.rs:81-84, 249-262  the session of the connection's address is found
\* and the stream is queued on its data_q
DataChannelQueued(c) ==
  /\ serverUp
  /\ spc[c] = "first"
  /\ first[c] = "frame"
  /\ clients[addr[c]] # NoConn
  /\ apc[clients[addr[c]]] \in {"accept", "wait"}
  /\ data_q' = [data_q EXCEPT ![clients[addr[c]]] = Append(@, c)]
  /\ spc' = [spc EXCEPT ![c] = "queued"]
  /\ UNCHANGED <<extVars, loopVars, allocVars, serverUp, connVars, fexp, aport, accVars, visVars,
                 clients, ctrl_q, s2c, hbin, cliVars>>

\* server.rs:256-261  the session is found, data_rx is gone: the send fails
DataChannelSendFail(c) ==
  /\ serverUp
  /\ spc[c] = "first"
  /\ first[c] = "frame"
  /\ clients[addr[c]] # NoConn
  /\ apc[clients[addr[c]]] \notin {"accept", "wait"}
  /\ spc' = [spc EXCEPT ![c] = "done"]
  /\ UNCHANGED <<extVars, loopVars, allocVars, serverUp, connVars, fexp, aport, accVars, visVars,
                 clients, ctrl_q, data_q, s2c, hbin, cliVars>>

\* server.rs:263-267  no session under the connection's address: the stream
\* is dropped
DataChannelNoSession(c) ==
  /\ serverUp
  /\ spc[c] = "first"
  /\ first[c] = "frame"
  /\ clients[addr[c]] = NoConn
  /\ spc' = [spc EXCEPT ![c] = "done"]
  /\ UNCHANGED <<extVars, loopVars, allocVars, serverUp, connVars, fexp, aport, accVars, visVars,
                 clients, ctrl_q, data_q, s2c, hbin, cliVars>>

\* ------------------------------------------------------------ tunnel client

\* tunnel.rs:65-78, client.rs:20-22, 67-78  start_tunnel: connect_and_get_port
\* dials the server and sends TunnelRequest (again after a failed attempt)
StartTunnel(k, a) ==
  /\ cpc[k] = "init"
  /\ OpenConn(k, a, "TunnelRequest")
  /\ cpc' = [cpc EXCEPT ![k] = "probe"]
  /\ cconn' = [cconn EXCEPT ![k] = nconn + 1]
  /\ UNCHANGED <<extVars, loopVars, allocVars, serverUp, fexp, aport, accVars, visVars, clients,
                 ctrl_q, data_q, s2c, hbin, tport>>

\* client.rs:81-91, tunnel.rs:78-93  TunnelResponse arrives: try_connect returns
\* the port and drops its stream; the port is stored in the handle and
\* run_client is spawned
ProbeGotPort(k) ==
  /\ serverUp
  /\ cpc[k] = "probe"
  /\ s2c[cconn[k]] # <<>>
  /\ Head(s2c[cconn[k]]).type = "TunnelResponse"
  /\ tport' = [tport EXCEPT ![k] = Head(s2c[cconn[k]]).arg]
  /\ s2c' = [s2c EXCEPT ![cconn[k]] = Tail(@)]
  /\ copen' = [copen EXCEPT ![cconn[k]] = FALSE]
  /\ cpc' = [cpc EXCEPT ![k] = "run"]
  /\ cconn' = [cconn EXCEPT ![k] = NoConn]
  /\ UNCHANGED <<extVars, loopVars, allocVars, serverUp, nconn, addr, owner, first, taskVars, accVars,
                 visVars, clients, ctrl_q, data_q, hbin>>

\* client.rs:81-83, 25-28  the server closed the connection without a
\* response: try_connect fails, connect_and_get_port sleeps and retries
ProbeFailed(k) ==
  /\ serverUp
  /\ cpc[k] = "probe"
  /\ s2c[cconn[k]] = <<>>
  /\ ServerClosed(cconn[k])
  /\ copen' = [copen EXCEPT ![cconn[k]] = FALSE]
  /\ cpc' = [cpc EXCEPT ![k] = "init"]
  /\ cconn' = [cconn EXCEPT ![k] = NoConn]
  /\ UNCHANGED <<extVars, loopVars, allocVars, serverUp, nconn, addr, owner, first, taskVars, accVars,
                 visVars, clients, ctrl_q, data_q, s2c, hbin, tport>>

\* client.rs:44-46, 95-106  run_client: try_run_client dials the server and
\* sends TunnelRequest (again after a failed attempt and RETRY_INTERVAL)
RunConnect(k, a) ==
  /\ cpc[k] = "run"
  /\ OpenConn(k, a, "TunnelRequest")
  /\ cpc' = [cpc EXCEPT ![k] = "wait"]
  /\ cconn' = [cconn EXCEPT ![k] = nconn + 1]
  /\ UNCHANGED <<extVars, loopVars, allocVars, serverUp, fexp, aport, accVars, visVars, clients,
                 ctrl_q, data_q, s2c, hbin, tport>>

\* client.rs:109-121, 130, 169-174  TunnelResponse arrives: the control loop
\* starts; the first tick of its interval is immediate and sends a Heartbeat
RunGotPort(k) ==
  /\ serverUp
  /\ cpc[k] = "wait"
  /\ s2c[cconn[k]] # <<>>
  /\ Head(s2c[cconn[k]]).type = "TunnelResponse"
  /\ s2c' = [s2c EXCEPT ![cconn[k]] = Tail(@)]
  /\ hbin' = [hbin EXCEPT ![cconn[k]] = TRUE]
  /\ cpc' = [cpc EXCEPT ![k] = "loop"]
  /\ UNCHANGED <<extVars, loopVars, allocVars, serverUp, connVars, taskVars, accVars, visVars,
                 clients, ctrl_q, data_q, cconn, tport>>

\* client.rs:109-111, 159-161, 171-173, 52-55  the server closed the control
\* connection: try_run_client fails, run_client sleeps and retries
RunFailed(k) ==
  /\ serverUp
  /\ cpc[k] \in {"wait", "loop"}
  /\ ServerClosed(cconn[k])
  /\ copen' = [copen EXCEPT ![cconn[k]] = FALSE]
  /\ cpc' = [cpc EXCEPT ![k] = "run"]
  /\ cconn' = [cconn EXCEPT ![k] = NoConn]
  /\ UNCHANGED <<extVars, loopVars, allocVars, serverUp, nconn, addr, owner, first, taskVars, accVars,
                 visVars, clients, ctrl_q, data_q, s2c, hbin, tport>>

\* client.rs:169-174  the 20 s tick of the control loop: a Heartbeat is sent
ClientHeartbeat(k) ==
  /\ serverUp
  /\ cpc[k] = "loop"
  /\ ~ServerClosed(cconn[k])
  /\ ~hbin[cconn[k]]
  /\ hbin' = [hbin EXCEPT ![cconn[k]] = TRUE]
  /\ UNCHANGED <<extVars, loopVars, allocVars, serverUp, connVars, taskVars, accVars, visVars,
                 clients, ctrl_q, data_q, s2c, cliVars>>

\* client.rs:139-148, 180-193  CreateDataChannel is read: create_data_channel
\* is spawned and dials the server and the local service; it writes no frame
ClientCreateDataChannel(k, a) ==
  /\ cpc[k] = "loop"
  /\ s2c[cconn[k]] # <<>>
  /\ Head(s2c[cconn[k]]).type = "CreateDataChannel"
  /\ OpenConn(k, a, "none")
  /\ s2c' = [s2c EXCEPT ![cconn[k]] = Tail(@)]
  /\ UNCHANGED <<extVars, loopVars, allocVars, serverUp, fexp, aport, accVars, visVars, clients,
                 ctrl_q, data_q, hbin, cliVars>>

\* client.rs:199-200  the local service speaks first: its bytes are copied to
\* the server, which reads them as the first frame of the data channel
LocalSpeaksFirst(d, f) ==
  /\ serverUp
  /\ spc[d] \in {"syn", "first"}
  /\ first[d] = "none"
  /\ copen[d]
  /\ first' = [first EXCEPT ![d] = f]
  /\ UNCHANGED <<extVars, loopVars, allocVars, serverUp, nconn, addr, owner, copen, taskVars, accVars,
                 visVars, clients, ctrl_q, data_q, s2c, hbin, cliVars>>

\* client.rs:202-218  the server closed the data channel: the copy ends and
\* create_data_channel drops both streams
DataChannelClosed(d) ==
  /\ serverUp
  /\ copen[d]
  /\ first[d] # "TunnelRequest"
  /\ ServerClosed(d)
  /\ copen' = [copen EXCEPT ![d] = FALSE]
  /\ UNCHANGED <<extVars, loopVars, allocVars, serverUp, nconn, addr, owner, first, taskVars, accVars,
                 visVars, clients, ctrl_q, data_q, s2c, hbin, cliVars>>

\* some other peer dials the control port and writes bytes that are a frame
\* other than TunnelRequest, or bytes that are no frame, or nothing
\* (server.rs:39-50, 72-84)
StrangerConnect(a, f) ==
  /\ OpenConn(NoClient, a, f)
  /\ UNCHANGED <<extVars, loopVars, allocVars, serverUp, fexp, aport, accVars, visVars, clients,
                 ctrl_q, data_q, s2c, hbin, cliVars>>

\* the client process ends (killed, or shut down): all its sockets close
ClientStop(k) ==
  /\ serverUp
  /\ cpc[k] # "dead"
  /\ cpc' = [cpc EXCEPT ![k] = "dead"]
  /\ copen' = [c \in Conns |-> copen[c] /\ owner[c] # k]
  /\ UNCHANGED <<extVars, loopVars, allocVars, serverUp, nconn, addr, owner, first, taskVars, accVars,
                 visVars, clients, ctrl_q, data_q, s2c, hbin, cconn, tport>>

\* --------------------------------------------------------------------- time

\* the steps that take no time: whatever a task does once its read, accept,
\* recv or timer has completed
UrgentNext ==
  \/ \E c \in Conns : Accept(c)
  \/ \E c \in Conns : FirstFrameError(c)
  \/ \E c \in Conns : FirstFrameTimeout(c)
  \/ \E c \in Conns : ControlAllocFail(c)
  \/ \E c \in Conns : ControlResponseFail(c)
  \/ \E c \in Conns : ControlEstablish(c)
  \/ \E c \in Conns : ReadEOF(c)
  \/ \E c \in Conns : ServerEchoHeartbeat(c)
  \/ \E c \in Conns : ServerSendCtrl(c)
  \/ \E c \in Conns : AcceptVisitor(c)
  \/ \E c \in Conns : AcceptVisitorSendFail(c)
  \/ \E c \in Conns : PairVisitor(c)
  \/ \E c \in Conns : PairingTimeout(c)
  \/ \E c \in Conns : DataQueueClosed(c)
  \/ \E c \in Conns : DataChannelQueued(c)
  \/ \E c \in Conns : DataChannelSendFail(c)
  \/ \E c \in Conns : DataChannelNoSession(c)
  \/ \E k \in Clients : ProbeGotPort(k)
  \/ \E k \in Clients : ProbeFailed(k)
  \/ \E k \in Clients : RunGotPort(k)
  \/ \E k \in Clients : RunFailed(k)
  \/ \E k \in Clients, a \in Addrs : ClientCreateDataChannel(k, a)
  \/ \E d \in Conns : DataChannelClosed(d)

\* a client holds a CreateDataChannel it cannot serve within the bounds of
\* the model (no connection or address left): time is not let pass
BoundBlocked ==
  \E k \in Clients :
    /\ cpc[k] = "loop"
    /\ s2c[cconn[k]] # <<>>
    /\ Head(s2c[cconn[k]]).type = "CreateDataChannel"
    /\ \A a \in Addrs : ~ENABLED ClientCreateDataChannel(k, a)

\* 10 s pass: the running 10 s timers (server.rs:72, 158) elapse
Tick ==
  /\ serverUp
  /\ ~ENABLED UrgentNext
  /\ ~BoundBlocked
  /\ \E c \in Conns : (spc[c] = "first" /\ ~fexp[c]) \/ (apc[c] = "wait" /\ ~pexp[c])
  /\ fexp' = [c \in Conns |-> fexp[c] \/ spc[c] = "first"]
  /\ pexp' = [c \in Conns |-> pexp[c] \/ apc[c] = "wait"]
  /\ UNCHANGED <<extVars, loopVars, allocVars, serverUp, connVars, spc, aport, apc, avis, backlog,
                 visVars, clients, ctrl_q, data_q, s2c, hbin, cliVars>>

Next ==
  \/ \E c \in Conns : Accept(c)
  \/ ServerShutdown
  \/ \E c \in Conns : FirstFrameError(c)
  \/ \E c \in Conns : FirstFrameTimeout(c)
  \/ \E c \in Conns : ControlAllocFail(c)
  \/ \E c \in Conns : ControlResponseFail(c)
  \/ \E c \in Conns : ControlEstablish(c)
  \/ \E c \in Conns : ReadEOF(c)
  \/ \E c \in Conns : ServerEchoHeartbeat(c)
  \/ \E c \in Conns : ServerEchoFail(c)
  \/ \E c \in Conns : ServerSendCtrl(c)
  \/ \E c \in Conns : ServerSendCtrlFail(c)
  \/ \E c \in Conns : ServerHeartbeatTick(c)
  \/ \E v \in Visitors, c \in Conns : VisitorConnect(v, c)
  \/ \E c \in Conns : AcceptVisitor(c)
  \/ \E c \in Conns : AcceptVisitorSendFail(c)
  \/ \E c \in Conns : PairVisitor(c)
  \/ \E c \in Conns : PairingTimeout(c)
  \/ \E c \in Conns : DataQueueClosed(c)
  \/ \E v \in Visitors : PumpEnd(v)
  \/ \E c \in Conns : DataChannelQueued(c)
  \/ \E c \in Conns : DataChannelSendFail(c)
  \/ \E c \in Conns : DataChannelNoSession(c)
  \/ \E k \in Clients, a \in Addrs : StartTunnel(k, a)
  \/ \E k \in Clients : ProbeGotPort(k)
  \/ \E k \in Clients : ProbeFailed(k)
  \/ \E k \in Clients, a \in Addrs : RunConnect(k, a)
  \/ \E k \in Clients : RunGotPort(k)
  \/ \E k \in Clients : RunFailed(k)
  \/ \E k \in Clients : ClientHeartbeat(k)
  \/ \E k \in Clients, a \in Addrs : ClientCreateDataChannel(k, a)
  \/ \E d \in Conns, f \in {"frame", "garbage"} : LocalSpeaksFirst(d, f)
  \/ \E d \in Conns : DataChannelClosed(d)
  \/ \E a \in Addrs, f \in {"frame", "garbage", "none"} : StrangerConnect(a, f)
  \/ \E k \in Clients : ClientStop(k)
  \/ Tick

Init == InitAlloc

Spec == Init /\ [][Next]_vars

\* ------------------------------------------------- accept errors

\* server.rs:147, 176-179  listener.accept() returns an error (no descriptor
\* left, the connection was aborted): the acceptor breaks out of its loop and
\* the task ends, the listener drops with it
AcceptError(c) ==
  /\ serverUp
  /\ apc[c] = "accept"
  /\ AcceptorStop(c, NoVisitor)
  /\ pexp' = pexp
  /\ UNCHANGED <<extVars, loopVars, allocVars, serverUp, connVars, fexp, aport, vdc, clients,
                 ctrl_q, s2c, hbin, cliVars>>

\* the server with tunnel clients and visitors, the clients' data channels
\* silent, and accept() of a public listener failing at any time
NextListen ==
  \/ \E c \in Conns : Accept(c)
  \/ \E c \in Conns : FirstFrameTimeout(c)
  \/ \E c \in Conns : ControlEstablish(c)
  \/ \E c \in Conns : ReadEOF(c)
  \/ \E c \in Conns : ServerEchoHeartbeat(c)
  \/ \E c \in Conns : ServerSendCtrl(c)
  \/ \E v \in Visitors, c \in Conns : VisitorConnect(v, c)
  \/ \E c \in Conns : AcceptVisitor(c)
  \/ \E c \in Conns : AcceptVisitorSendFail(c)
  \/ \E c \in Conns : AcceptError(c)
  \/ \E c \in Conns : PairingTimeout(c)
  \/ \E c \in Conns : DataQueueClosed(c)
  \/ \E k \in Clients, a \in Addrs : StartTunnel(k, a)
  \/ \E k \in Clients : ProbeGotPort(k)
  \/ \E k \in Clients, a \in Addrs : RunConnect(k, a)
  \/ \E k \in Clients : RunGotPort(k)
  \/ \E k \in Clients : ClientHeartbeat(k)
  \/ \E k \in Clients, a \in Addrs : ClientCreateDataChannel(k, a)
  \/ \E d \in Conns : DataChannelClosed(d)
  \/ \E k \in Clients : ClientStop(k)
  \/ Tick

SpecListen == Init /\ [][NextListen]_vars

\* ------------------------------------------- client control loop and time

\* client.rs:133-135  each iteration of the loop builds the select anew: a new
\* timeout(HEARTBEAT_TIMEOUT, read_from) starts from the full duration
NewIteration == HEARTBEAT_TIMEOUT

\* client.rs:135-158  a frame of the server is read (a Heartbeat is echoed,
\* the write succeeds); the loop goes round
LoopReadFrame ==
  /\ lpc = "loop"
  /\ inbox > 0
  /\ peer # "closed"
  /\ inbox' = inbox - 1
  /\ silent' = 0
  /\ rdTimer' = NewIteration
  /\ UNCHANGED <<lpc, hbTimer, peer, lastErr>>
  /\ UNCHANGED <<allocVars, srvVars, cliVars, extVars>>

\* client.rs:135, 159-165  the read arm ends the loop: the read failed (the
\* server closed), or the timeout of this iteration elapsed
LoopReadEnds ==
  /\ lpc = "loop"
  /\ \/ /\ peer = "closed"
        /\ lastErr' = "Failed to read message"
     \/ /\ peer # "closed"
        /\ inbox = 0
        /\ rdTimer = 0
        /\ lastErr' = "Heartbeat timeout"
  /\ lpc' = "retry"
  /\ hbTimer' = RETRY_INTERVAL
  /\ UNCHANGED <<rdTimer, silent, inbox, peer>>
  /\ UNCHANGED <<allocVars, srvVars, cliVars, extVars>>

\* client.rs:169-174  the interval ticks: a Heartbeat is written (the write
\* succeeds while the connection is open); the loop goes round
LoopTick ==
  /\ lpc = "loop"
  /\ hbTimer = 0
  /\ peer # "closed"
  /\ hbTimer' = HEARTBEAT_INTERVAL
  /\ rdTimer' = NewIteration
  /\ UNCHANGED <<lpc, silent, inbox, peer, lastErr>>
  /\ UNCHANGED <<allocVars, srvVars, cliVars, extVars>>

\* client.rs:52-55, 44-46, 95-121, 130  RETRY_INTERVAL has passed: run_client
\* dials again and a new control loop starts (its first tick is immediate)
LoopRestart ==
  /\ lpc = "retry"
  /\ hbTimer = 0
  /\ lpc' = "loop"
  /\ peer' = "alive"
  /\ inbox' = 0
  /\ silent' = 0
  /\ rdTimer' = NewIteration
  /\ UNCHANGED <<hbTimer, lastErr>>
  /\ UNCHANGED <<allocVars, srvVars, cliVars, extVars>>

\* one second passes while no arm of the select (no timer of the sleep) is ready
SecondPasses ==
  /\ hbTimer > 0
  /\ lpc = "loop" => (rdTimer > 0 /\ inbox = 0 /\ peer # "closed")
  /\ hbTimer' = hbTimer - 1
  /\ rdTimer' = IF lpc = "loop" THEN rdTimer - 1 ELSE rdTimer
  /\ silent' = IF lpc = "loop" /\ silent < MaxSilence THEN silent + 1 ELSE silent
  /\ UNCHANGED <<lpc, inbox, peer, lastErr>>
  /\ UNCHANGED <<allocVars, srvVars, cliVars, extVars>>

\* server.rs:196, 219  a Heartbeat of the server arrives at the client
PeerSends ==
  /\ lpc = "loop"
  /\ peer = "alive"
  /\ inbox < MaxInbox
  /\ inbox' = inbox + 1
  /\ UNCHANGED <<lpc, hbTimer, rdTimer, silent, peer, lastErr>>
  /\ UNCHANGED <<allocVars, srvVars, cliVars, extVars>>

\* the server stops sending (it is paused, or the path drops its packets)
\* while the client's writes go on succeeding
PeerPauses ==
  /\ lpc = "loop"
  /\ peer = "alive"
  /\ peer' = "paused"
  /\ UNCHANGED <<lpc, hbTimer, rdTimer, silent, inbox, lastErr>>
  /\ UNCHANGED <<allocVars, srvVars, cliVars, extVars>>

\* the server closes the control connection
PeerCloses ==
  /\ lpc = "loop"
  /\ peer # "closed"
  /\ peer' = "closed"
  /\ UNCHANGED <<lpc, hbTimer, rdTimer, silent, inbox, lastErr>>
  /\ UNCHANGED <<allocVars, srvVars, cliVars, extVars>>

NextLoop ==
  \/ LoopReadFrame
  \/ LoopReadEnds
  \/ LoopTick
  \/ LoopRestart
  \/ SecondPasses
  \/ PeerSends
  \/ PeerPauses
  \/ PeerCloses

SpecLoop == Init /\ [][NextLoop]_vars

\* ------------------------------------------------ write_to and read_from

\* protocol.rs:26-47  write_to(pin.msg) on an empty stream; the peer's later
\* bytes follow
ProtoWrite ==
  /\ rpc = "idle"
  /\ pin.kind = "msg"
  /\ wire' = write_to(pin.msg) \o pin.trail
  /\ wlen' = Len(write_to(pin.msg))
  /\ rpc' = "start"
  /\ UNCHANGED <<pin, fill, rpos, rlen, rmsg>>
  /\ UNCHANGED <<allocVars, srvVars, cliVars, loopVars, pumpVars, sigVars, chanVars>>

\* a peer that is no rathole client writes a length prefix and some bytes
ProtoWriteRaw ==
  /\ rpc = "idle"
  /\ pin.kind = "raw"
  /\ wire' = pin.hdr
  /\ fill' = pin.avail
  /\ rpc' = "start"
  /\ UNCHANGED <<pin, wlen, rpos, rlen, rmsg>>
  /\ UNCHANGED <<allocVars, srvVars, cliVars, loopVars, pumpVars, sigVars, chanVars>>

\* protocol.rs:52-55  read_u32_le: four bytes, or the error at EOF
ProtoReadLen ==
  /\ rpc = "start"
  /\ IF Len(wire) >= 4
     THEN /\ rlen' = read_u32_le(SubSeq(wire, 1, 4))
          /\ rpos' = 4
          /\ rpc' = "len"
     ELSE /\ rlen' = rlen
          /\ rpos' = Len(wire)
          /\ rpc' = "eof"
  /\ UNCHANGED <<pin, wire, fill, wlen, rmsg>>
  /\ UNCHANGED <<allocVars, srvVars, cliVars, loopVars, pumpVars, sigVars, chanVars>>

\* protocol.rs:58-60  the declared length is over the limit: bail
ProtoTooLarge ==
  /\ rpc = "len"
  /\ TooLarge(rlen)
  /\ rpc' = "toolarge"
  /\ UNCHANGED <<pin, wire, fill, wlen, rpos, rlen, rmsg>>
  /\ UNCHANGED <<allocVars, srvVars, cliVars, loopVars, pumpVars, sigVars, chanVars>>

\* protocol.rs:63-67  read_exact of len bytes, or the error at EOF
ProtoReadPayload ==
  /\ rpc = "len"
  /\ ~TooLarge(rlen)
  /\ IF Len(wire) - 4 + fill >= rlen
     THEN /\ rpos' = 4 + rlen
          /\ rpc' = "payload"
     ELSE /\ rpos' = Len(wire) + fill
          /\ rpc' = "eof"
  /\ UNCHANGED <<pin, wire, fill, wlen, rlen, rmsg>>
  /\ UNCHANGED <<allocVars, srvVars, cliVars, loopVars, pumpVars, sigVars, chanVars>>

\* protocol.rs:70-76  the payload is decoded; a payload that reaches into the
\* zero bytes is no JSON text
ProtoParse ==
  /\ rpc = "payload"
  /\ LET m == IF 4 + rlen <= Len(wire)
              THEN from_str(SubSeq(wire, 5, 4 + rlen))
              ELSE NoMessage
     IN  /\ rmsg' = m
         /\ rpc' = IF m = NoMessage THEN "badjson" ELSE "ok"
  /\ UNCHANGED <<pin, wire, fill, wlen, rpos, rlen>>
  /\ UNCHANGED <<allocVars, srvVars, cliVars, loopVars, pumpVars, sigVars, chanVars>>

NextProto ==
  \/ ProtoWrite
  \/ ProtoWriteRaw
  \/ ProtoReadLen
  \/ ProtoTooLarge
  \/ ProtoReadPayload
  \/ ProtoParse

\* the streams of ProtoInputs, each written and read once
InitProto ==
  /\ InitServer
  /\ InitAllocator
  /\ pin \in ProtoInputs
  /\ InitStream
  /\ InitPump
  /\ smode = "off"
  /\ reach = FALSE
  /\ InitMain
  /\ InitChan

SpecProto == InitProto /\ [][NextProto]_vars

\* -------------------------------------------------------- forward_traffic

\* side x writes its next byte (the k-th byte it writes is the number k)
PeerWrite(x) ==
  /\ pclosed[x] = "open"
  /\ Len(psent[x]) < MaxBytes
  /\ psent' = [psent EXCEPT ![x] = Append(@, Len(@) + 1)]
  /\ psock' = [psock EXCEPT ![x] = IF pump = "running" THEN Append(@, Len(psent[x]) + 1) ELSE @]
  /\ UNCHANGED <<pump, pbuf, pdlv, pclosed, pmark>>
  /\ UNCHANGED <<allocVars, srvVars, cliVars, loopVars, protoVars, sigVars, chanVars>>

\* side x closes: it shuts its writing side and goes on reading ("eof"), or
\* its connection is reset
PeerClose(x, how) ==
  /\ pclosed[x] = "open"
  /\ pclosed' = [pclosed EXCEPT ![x] = how]
  /\ pmark' = [pmark EXCEPT ![Other(x)] = Len(psent[Other(x)])]
  /\ UNCHANGED <<pump, psent, psock, pbuf, pdlv>>
  /\ UNCHANGED <<allocVars, srvVars, cliVars, loopVars, protoVars, sigVars, chanVars>>

\* server.rs:275-276  tokio::io::copy(x -> other): a read takes the first n
\* bytes that have arrived
CopyRead(x, n) ==
  /\ pump = "running"
  /\ pbuf[x] = <<>>
  /\ n \in 1 .. Len(psock[x])
  /\ pbuf' = [pbuf EXCEPT ![x] = SubSeq(psock[x], 1, n)]
  /\ psock' = [psock EXCEPT ![x] = SubSeq(@, n + 1, Len(@))]
  /\ UNCHANGED <<pump, psent, pdlv, pclosed, pmark>>
  /\ UNCHANGED <<allocVars, srvVars, cliVars, loopVars, protoVars, sigVars, chanVars>>

\* server.rs:275-276  copy writes what it has read to the other side
CopyWrite(x) ==
  /\ pump = "running"
  /\ pbuf[x] # <<>>
  /\ pclosed[Other(x)] # "reset"
  /\ pdlv' = [pdlv EXCEPT ![Other(x)] = @ \o pbuf[x]]
  /\ pbuf' = [pbuf EXCEPT ![x] = <<>>]
  /\ UNCHANGED <<pump, psent, psock, pclosed, pmark>>
  /\ UNCHANGED <<allocVars, srvVars, cliVars, loopVars, protoVars, sigVars, chanVars>>

\* server.rs:278-293  the select completes with the first copy that ends and
\* drops the other one; forward_traffic returns and the four halves are
\* dropped with what they hold
SelectCompletes ==
  /\ pump' = "done"
  /\ psock' = [y \in Sides |-> <<>>]
  /\ pbuf' = [y \in Sides |-> <<>>]
  /\ UNCHANGED <<psent, pdlv, pclosed, pmark>>

\* server.rs:279-281, 285-287  copy(x -> other) reads EOF and returns Ok
CopyEof(x) ==
  /\ pump = "running"
  /\ pclosed[x] = "eof"
  /\ psock[x] = <<>>
  /\ pbuf[x] = <<>>
  /\ SelectCompletes
  /\ UNCHANGED <<allocVars, srvVars, cliVars, loopVars, protoVars, sigVars, chanVars>>

\* server.rs:282, 288  copy(x -> other) fails: the read on a reset connection,
\* or the write to one
CopyError(x) ==
  /\ pump = "running"
  /\ \/ pclosed[x] = "reset"
     \/ pbuf[x] # <<>> /\ pclosed[Other(x)] = "reset"
  /\ SelectCompletes
  /\ UNCHANGED <<allocVars, srvVars, cliVars, loopVars, protoVars, sigVars, chanVars>>

NextPump ==
  \/ \E x \in Sides : PeerWrite(x)
  \/ \E x \in Sides, how \in {"eof", "reset"} : PeerClose(x, how)
  \/ \E x \in Sides, n \in 1 .. MaxBytes : CopyRead(x, n)
  \/ \E x \in Sides : CopyWrite(x)
  \/ \E x \in Sides : CopyEof(x)
  \/ \E x \in Sides : CopyError(x)

SpecPump == Init /\ [][NextPump]_vars

\* ------------------------------------------------- signals and shutdown

\* main.rs:50  SIGINT is delivered to the process: the handler ctrl_c()
\* installed takes it and wakes the task
Sigint ==
  /\ smode # "off"
  /\ ~sigint
  /\ mpc # "exited"
  /\ sigint' = TRUE
  /\ UNCHANGED <<smode, reach, ctrlc, mainSig, tunSig, mpc, cgp, rc, nap, estAfter>>
  /\ UNCHANGED <<allocVars, srvVars, cliVars, loopVars, protoVars, pumpVars, chanVars>>

\* main.rs:49-54  the task spawned by main: ctrl_c() has yielded, it sends
\* on main's channel and ends
CtrlCSends ==
  /\ sigint
  /\ ctrlc = "awaiting"
  /\ mpc # "exited"
  /\ ctrlc' = "done"
  /\ mainSig' = TRUE
  /\ UNCHANGED <<smode, reach, sigint, tunSig, mpc, cgp, rc, nap, estAfter>>
  /\ UNCHANGED <<allocVars, srvVars, cliVars, loopVars, protoVars, pumpVars, chanVars>>

\* the server becomes reachable, or unreachable (the client's connections
\* fail or are closed)
ReachChanges ==
  /\ smode = "client"
  /\ mpc # "exited"
  /\ reach' = ~reach
  /\ UNCHANGED <<ctrlc, smode, sigint, mainSig, tunSig, mpc, cgp, rc, nap, estAfter>>
  /\ UNCHANGED <<allocVars, srvVars, cliVars, loopVars, protoVars, pumpVars, chanVars>>

\* main.rs:75-77  server mode: main awaits run_server
MainRunServer ==
  /\ smode = "server"
  /\ mpc = "start"
  /\ mpc' = "serving"
  /\ UNCHANGED <<ctrlc, smode, reach, sigint, mainSig, tunSig, cgp, rc, nap, estAfter>>
  /\ UNCHANGED <<allocVars, srvVars, cliVars, loopVars, protoVars, pumpVars, chanVars>>

\* server.rs:56-59, main.rs:76-80  the shutdown arm of run_server's select:
\* run_server returns and main returns
ServerMainShutdown ==
  /\ smode = "server"
  /\ mpc = "serving"
  /\ mainSig
  /\ mainSig' = FALSE
  /\ mpc' = "exited"
  /\ UNCHANGED <<ctrlc, smode, reach, sigint, tunSig, cgp, rc, nap, estAfter>>
  /\ UNCHANGED <<allocVars, srvVars, cliVars, loopVars, protoVars, pumpVars, chanVars>>

\* main.rs:61, tunnel.rs:65-78  client mode: main awaits start_tunnel, which
\* makes its own shutdown channel and awaits connect_and_get_port
MainStartTunnel ==
  /\ smode = "client"
  /\ mpc = "start"
  /\ mpc' = "start_tunnel"
  /\ UNCHANGED <<ctrlc, smode, reach, sigint, mainSig, tunSig, cgp, rc, nap, estAfter>>
  /\ UNCHANGED <<allocVars, srvVars, cliVars, loopVars, protoVars, pumpVars, chanVars>>

\* client.rs:21-33, tunnel.rs:78-93, main.rs:62-70  connect_and_get_port
\* returns: Ok(port) of try_connect (run_client is spawned, main goes on to
\* await its receiver), or the error of the shutdown arm, which polls the
\* receiver of start_tunnel's channel (main returns the error)
CgpReturns ==
  /\ mpc = "start_tunnel"
  /\ cgp = "connecting"
  /\ \/ /\ reach
        /\ mpc' = "press"
        /\ rc' = "connecting"
     \/ /\ tunSig
        /\ mpc' = "exited"
        /\ rc' = rc
  /\ cgp' = "returned"
  /\ UNCHANGED <<ctrlc, smode, reach, sigint, mainSig, tunSig, nap, estAfter>>
  /\ UNCHANGED <<allocVars, srvVars, cliVars, loopVars, protoVars, pumpVars, chanVars>>

\* client.rs:25-28  try_connect failed: sleep(RETRY_INTERVAL) in the arm
CgpFailed ==
  /\ mpc = "start_tunnel"
  /\ cgp = "connecting"
  /\ ~reach
  /\ cgp' = "sleeping"
  /\ nap' = RETRY_INTERVAL
  /\ UNCHANGED <<ctrlc, smode, reach, sigint, mainSig, tunSig, mpc, rc, estAfter>>
  /\ UNCHANGED <<allocVars, srvVars, cliVars, loopVars, protoVars, pumpVars, chanVars>>

\* client.rs:20-22  the sleep is over: the loop goes round, a new select with
\* a new try_connect
CgpRetry ==
  /\ mpc = "start_tunnel"
  /\ cgp = "sleeping"
  /\ nap = 0
  /\ cgp' = "connecting"
  /\ UNCHANGED <<ctrlc, smode, reach, sigint, mainSig, tunSig, mpc, rc, nap, estAfter>>
  /\ UNCHANGED <<allocVars, srvVars, cliVars, loopVars, protoVars, pumpVars, chanVars>>

\* a second of the running sleep passes
NapSecond ==
  /\ nap > 0
  /\ nap' = nap - 1
  /\ UNCHANGED <<ctrlc, smode, reach, sigint, mainSig, tunSig, mpc, cgp, rc, estAfter>>
  /\ UNCHANGED <<allocVars, srvVars, cliVars, loopVars, protoVars, pumpVars, chanVars>>

\* main.rs:69-73, tunnel.rs:33-35  main's receiver yields: Tunnel::shutdown
\* sends on the Tunnel's channel and awaits the handle of run_client
MainShutdown ==
  /\ mpc = "press"
  /\ mainSig
  /\ mainSig' = FALSE
  /\ tunSig' = TRUE
  /\ mpc' = "shutdown"
  /\ UNCHANGED <<ctrlc, smode, reach, sigint, cgp, rc, nap, estAfter>>
  /\ UNCHANGED <<allocVars, srvVars, cliVars, loopVars, protoVars, pumpVars, chanVars>>

\* client.rs:109-111  the server's TunnelResponse arrives on the connection
\* try_run_client is reading from: the task of run_client is woken
ResponseArrives ==
  /\ rc = "connecting"
  /\ reach
  /\ rc' = "answered"
  /\ UNCHANGED <<ctrlc, smode, reach, sigint, mainSig, tunSig, mpc, cgp, nap, estAfter>>
  /\ UNCHANGED <<allocVars, srvVars, cliVars, loopVars, protoVars, pumpVars, chanVars>>

\* client.rs:46, 109-121  try_run_client is polled and reads TunnelResponse:
\* the tunnel is established and control_channel_loop runs (select! polls its
\* ready arms in random order: this arm may be the one polled first when the
\* signal has been sent too)
RcEstablish ==
  /\ rc = "answered"
  /\ rc' = "loop"
  /\ estAfter' = (estAfter \/ tunSig)
  /\ UNCHANGED <<ctrlc, smode, reach, sigint, mainSig, tunSig, mpc, cgp, nap>>
  /\ UNCHANGED <<allocVars, srvVars, cliVars, loopVars, protoVars, pumpVars, chanVars>>

\* client.rs:52-55  try_run_client returned an error (the connection failed,
\* the control loop ended): sleep(RETRY_INTERVAL) in the arm
RcFailed ==
  /\ rc \in {"connecting", "loop"}
  /\ ~reach
  /\ rc' = "sleeping"
  /\ nap' = RETRY_INTERVAL
  /\ UNCHANGED <<ctrlc, smode, reach, sigint, mainSig, tunSig, mpc, cgp, estAfter>>
  /\ UNCHANGED <<allocVars, srvVars, cliVars, loopVars, protoVars, pumpVars, chanVars>>

\* client.rs:44-46  the sleep is over and no signal was sent: a new select
\* with a new try_run_client, which dials the server
RcRetry ==
  /\ rc = "sleeping"
  /\ nap = 0
  /\ ~tunSig
  /\ rc' = "connecting"
  /\ UNCHANGED <<ctrlc, smode, reach, sigint, mainSig, tunSig, mpc, cgp, nap, estAfter>>
  /\ UNCHANGED <<allocVars, srvVars, cliVars, loopVars, protoVars, pumpVars, chanVars>>

\* client.rs:44-55  the sleep is over and the signal was sent: in the first
\* poll of the new select the connect fails at once and its arm is the one
\* picked: run_client sleeps again
RcRetryFailsAtOnce ==
  /\ rc = "sleeping"
  /\ nap = 0
  /\ tunSig
  /\ ~reach
  /\ nap' = RETRY_INTERVAL
  /\ UNCHANGED <<ctrlc, smode, reach, sigint, mainSig, tunSig, mpc, cgp, rc, estAfter>>
  /\ UNCHANGED <<allocVars, srvVars, cliVars, loopVars, protoVars, pumpVars, chanVars>>

\* client.rs:45, 58  the states of run_client in which its select polls the
\* shutdown receiver: not while it sleeps inside the error arm
PollsShutdownOnlyInLoop == rc = "loop"
PollsShutdown ==
  rc \in {"connecting", "answered", "loop"} \/ (rc = "sleeping" /\ nap = 0)

\* client.rs:58-61  the shutdown arm: run_client returns Ok
RcShutdown ==
  /\ tunSig
  /\ PollsShutdown
  /\ rc' = "returned"
  /\ UNCHANGED <<ctrlc, smode, reach, sigint, mainSig, tunSig, mpc, cgp, nap, estAfter>>
  /\ UNCHANGED <<allocVars, srvVars, cliVars, loopVars, protoVars, pumpVars, chanVars>>

\* tunnel.rs:35-36, main.rs:73-80  the handle yields Ok: main returns
MainExit ==
  /\ mpc = "shutdown"
  /\ rc = "returned"
  /\ mpc' = "exited"
  /\ UNCHANGED <<ctrlc, smode, reach, sigint, mainSig, tunSig, cgp, rc, nap, estAfter>>
  /\ UNCHANGED <<allocVars, srvVars, cliVars, loopVars, protoVars, pumpVars, chanVars>>

NextSig ==
  \/ Sigint
  \/ CtrlCSends
  \/ ReachChanges
  \/ MainRunServer
  \/ ServerMainShutdown
  \/ MainStartTunnel
  \/ CgpReturns
  \/ CgpFailed
  \/ CgpRetry
  \/ NapSecond
  \/ MainShutdown
  \/ ResponseArrives
  \/ RcEstablish
  \/ RcFailed
  \/ RcRetry
  \/ RcRetryFailsAtOnce
  \/ RcShutdown
  \/ MainExit

\* a process of either subcommand, the server reachable or not at its start
InitSig ==
  /\ InitServer
  /\ InitAllocator
  /\ pin = NoInput
  /\ InitStream
  /\ InitPump
  /\ smode \in {"server", "client"}
  /\ reach \in BOOLEAN
  /\ InitMain
  /\ InitChan

\* every task that can run is run, sleeps end, a connection attempt ends;
\* select! picks among its ready arms at random, so the shutdown arm, ready
\* again and again, is picked in the end
FairSig ==
  /\ WF_vars(CtrlCSends)
  /\ WF_vars(MainRunServer)
  /\ WF_vars(ServerMainShutdown)
  /\ WF_vars(MainStartTunnel)
  /\ WF_vars(CgpReturns)
  /\ WF_vars(CgpFailed)
  /\ WF_vars(CgpRetry)
  /\ WF_vars(NapSecond)
  /\ WF_vars(MainShutdown)
  /\ WF_vars(ResponseArrives)
  /\ WF_vars(RcEstablish)
  /\ WF_vars(RcFailed)
  /\ WF_vars(RcRetry)
  /\ WF_vars(RcRetryFailsAtOnce)
  /\ SF_vars(RcShutdown)
  /\ WF_vars(MainExit)

SpecSig == InitSig /\ [][NextSig]_vars /\ FairSig

\* ------------------------------------ one control channel: the writer path

\* the Heartbeat frames the control loop has written or begun to write
BeatsWritten ==
  Cardinality({i \in DOMAIN wout : wout[i].part = "len" /\ wout[i].fr = Heartbeat})

\* server.rs:147-158  the acceptor accepts its next visitor and sends
\* CreateDataChannel onto ctrl_q; it then awaits data_rx.recv()
CtlAcceptVisitor ==
  /\ kst = "accept"
  /\ kacc < MaxVisits
  /\ wst # "done"
  /\ kacc' = kacc + 1
  /\ kq' = Append(kq, kacc + 1)
  /\ kst' = "wait"
  /\ UNCHANGED <<wst, wfr, wout, whb, wtick, wcli>>
  /\ UNCHANGED <<allocVars, srvVars, cliVars, loopVars, protoVars, pumpVars, sigVars, beatVars, frameVars>>

\* server.rs:147-155  the visitor is accepted, control_rx is gone: the send
\* fails and the acceptor ends
CtlAcceptSendFail ==
  /\ kst = "accept"
  /\ kacc < MaxVisits
  /\ wst = "done"
  /\ kacc' = kacc + 1
  /\ kst' = "stopped"
  /\ UNCHANGED <<kq, wst, wfr, wout, whb, wtick, wcli>>
  /\ UNCHANGED <<allocVars, srvVars, cliVars, loopVars, protoVars, pumpVars, sigVars, beatVars, frameVars>>

\* server.rs:158-174  the wait ends, with a data channel or with the 10 s
\* timeout: the acceptor goes round to accept()
CtlWaitEnds ==
  /\ kst = "wait"
  /\ kst' = "accept"
  /\ UNCHANGED <<kacc, kq, wst, wfr, wout, whb, wtick, wcli>>
  /\ UNCHANGED <<allocVars, srvVars, cliVars, loopVars, protoVars, pumpVars, sigVars, beatVars, frameVars>>

\* server.rs:209-210  control_rx.recv() takes the message it returns out of
\* the queue
CtrlRecvKeeps(q) == q
CtrlRecv(q) == Tail(q)

\* server.rs:209-210  the ctrl_q arm of the select: write_to of the message
\* starts
CtlLoopRecv ==
  /\ wst = "select"
  /\ kq # <<>>
  /\ wfr' = CreateDataChannel(Head(kq))
  /\ kq' = CtrlRecv(kq)
  /\ wst' = "len"
  /\ UNCHANGED <<kacc, kst, wout, whb, wtick, wcli>>
  /\ UNCHANGED <<allocVars, srvVars, cliVars, loopVars, protoVars, pumpVars, sigVars, beatVars, frameVars>>

\* server.rs:192-197  the read arm: a Heartbeat of the client is read,
\* write_to of the echo starts
CtlLoopEcho ==
  /\ wst = "select"
  /\ whb
  /\ BeatsWritten < MaxBeats
  /\ whb' = FALSE
  /\ wfr' = Heartbeat
  /\ wst' = "len"
  /\ UNCHANGED <<kacc, kst, kq, wout, wtick, wcli>>
  /\ UNCHANGED <<allocVars, srvVars, cliVars, loopVars, protoVars, pumpVars, sigVars, beatVars, frameVars>>

\* server.rs:217-219  the tick arm: write_to of a Heartbeat starts
CtlLoopTick ==
  /\ wst = "select"
  /\ wtick
  /\ BeatsWritten < MaxBeats
  /\ wtick' = FALSE
  /\ wfr' = Heartbeat
  /\ wst' = "len"
  /\ UNCHANGED <<kacc, kst, kq, wout, whb, wcli>>
  /\ UNCHANGED <<allocVars, srvVars, cliVars, loopVars, protoVars, pumpVars, sigVars, beatVars, frameVars>>

\* protocol.rs:33-36  write_to writes the length prefix
CtlWriteLen ==
  /\ wst = "len"
  /\ wcli
  /\ wout' = Append(wout, [part |-> "len", fr |-> wfr])
  /\ wst' = "data"
  /\ UNCHANGED <<kacc, kst, kq, wfr, whb, wtick, wcli>>
  /\ UNCHANGED <<allocVars, srvVars, cliVars, loopVars, protoVars, pumpVars, sigVars, beatVars, frameVars>>

\* protocol.rs:39-46, server.rs:189  write_to writes the JSON text, flushes
\* and returns: the loop goes round to its select
CtlWriteData ==
  /\ wst = "data"
  /\ wcli
  /\ wout' = Append(wout, [part |-> "data", fr |-> wfr])
  /\ wfr' = NoFrame
  /\ wst' = "select"
  /\ UNCHANGED <<kacc, kst, kq, whb, wtick, wcli>>
  /\ UNCHANGED <<allocVars, srvVars, cliVars, loopVars, protoVars, pumpVars, sigVars, beatVars, frameVars>>

\* server.rs:196, 210-213, 219-222, 192-204  a write fails, or the read does
\* (the client has closed): the loop is left, control_rx drops with the task
CtlLoopEnds ==
  /\ wst # "done"
  /\ ~wcli
  /\ wst' = "done"
  /\ wfr' = NoFrame
  /\ kq' = <<>>
  /\ UNCHANGED <<kacc, kst, wout, whb, wtick, wcli>>
  /\ UNCHANGED <<allocVars, srvVars, cliVars, loopVars, protoVars, pumpVars, sigVars, beatVars, frameVars>>

\* client.rs:169-174  the client's control loop sends a Heartbeat
CtlClientHeartbeat ==
  /\ wcli
  /\ ~whb
  /\ wst # "done"
  /\ whb' = TRUE
  /\ UNCHANGED <<kacc, kst, kq, wst, wfr, wout, wtick, wcli>>
  /\ UNCHANGED <<allocVars, srvVars, cliVars, loopVars, protoVars, pumpVars, sigVars, beatVars, frameVars>>

\* server.rs:187  HEARTBEAT_INTERVAL has passed: the interval has a tick due
CtlTickDue ==
  /\ ~wtick
  /\ wst # "done"
  /\ wtick' = TRUE
  /\ UNCHANGED <<kacc, kst, kq, wst, wfr, wout, whb, wcli>>
  /\ UNCHANGED <<allocVars, srvVars, cliVars, loopVars, protoVars, pumpVars, sigVars, beatVars, frameVars>>

\* the client closes the control connection
CtlClientCloses ==
  /\ wcli
  /\ wcli' = FALSE
  /\ UNCHANGED <<kacc, kst, kq, wst, wfr, wout, whb, wtick>>
  /\ UNCHANGED <<allocVars, srvVars, cliVars, loopVars, protoVars, pumpVars, sigVars, beatVars, frameVars>>

NextCtl ==
  \/ CtlAcceptVisitor
  \/ CtlAcceptSendFail
  \/ CtlWaitEnds
  \/ CtlLoopRecv
  \/ CtlLoopEcho
  \/ CtlLoopTick
  \/ CtlWriteLen
  \/ CtlWriteData
  \/ CtlLoopEnds
  \/ CtlClientHeartbeat
  \/ CtlTickDue
  \/ CtlClientCloses

SpecCtl == Init /\ [][NextCtl]_vars

\* --------------------------------- one control channel: the heartbeats

\* client.rs:169-174  the client's interval ticks: a Heartbeat is written
BeatClientTick ==
  /\ bct = 0
  /\ bc2s + bs2c < MaxFlight
  /\ bc2s' = bc2s + 1
  /\ bct' = HEARTBEAT_INTERVAL
  /\ UNCHANGED <<bs2c, bst>>
  /\ UNCHANGED <<allocVars, srvVars, cliVars, loopVars, protoVars, pumpVars, sigVars, ctlVars, frameVars>>

\* server.rs:217-219  the server's interval ticks: a Heartbeat is written
BeatServerTick ==
  /\ bst = 0
  /\ bc2s + bs2c < MaxFlight
  /\ bs2c' = bs2c + 1
  /\ bst' = HEARTBEAT_INTERVAL
  /\ UNCHANGED <<bc2s, bct>>
  /\ UNCHANGED <<allocVars, srvVars, cliVars, loopVars, protoVars, pumpVars, sigVars, ctlVars, frameVars>>

\* client.rs:149-153  the client reads a Heartbeat and writes one back
BeatClientEcho ==
  /\ bs2c > 0
  /\ bs2c' = bs2c - 1
  /\ bc2s' = bc2s + 1
  /\ UNCHANGED <<bct, bst>>
  /\ UNCHANGED <<allocVars, srvVars, cliVars, loopVars, protoVars, pumpVars, sigVars, ctlVars, frameVars>>

\* server.rs:194-197  the server reads a Heartbeat and writes one back
BeatServerEcho ==
  /\ bc2s > 0
  /\ bc2s' = bc2s - 1
  /\ bs2c' = bs2c + 1
  /\ UNCHANGED <<bct, bst>>
  /\ UNCHANGED <<allocVars, srvVars, cliVars, loopVars, protoVars, pumpVars, sigVars, ctlVars, frameVars>>

\* a second passes on both intervals
BeatSecond ==
  /\ bct > 0
  /\ bst > 0
  /\ bct' = bct - 1
  /\ bst' = bst - 1
  /\ UNCHANGED <<bc2s, bs2c>>
  /\ UNCHANGED <<allocVars, srvVars, cliVars, loopVars, protoVars, pumpVars, sigVars, ctlVars, frameVars>>

NextBeat ==
  \/ BeatClientTick
  \/ BeatServerTick
  \/ BeatClientEcho
  \/ BeatServerEcho
  \/ BeatSecond

SpecBeat == Init /\ [][NextBeat]_vars

\* ------------------------------ one control loop: read_from under select!

\* the frames a server writes to an established client (server.rs:194-222)
FrameMessages == {Heartbeat, [type |-> "CreateDataChannel", arg |-> 0]}

\* the bytes on the socket the receiver has not taken yet
Unread == Len(fwire) - fpos

\* the next n bytes of the socket
Take(n) == SubSeq(fwire, fpos + 1, fpos + n)

Min(a, b) == IF a < b THEN a ELSE b

\* protocol.rs:33-36  the peer's write_to writes the length prefix
FramePeerWriteLen(m) ==
  /\ fwst = "idle"
  /\ Len(fsent) < MaxFrames
  /\ fsent' = Append(fsent, m)
  /\ fwire' = fwire \o write_u32_le(Len(to_string(m)))
  /\ fwst' = "data"
  /\ UNCHANGED <<fpos, fheld, fstage, flen, fgot, fst>>
  /\ UNCHANGED <<allocVars, srvVars, cliVars, loopVars, protoVars, pumpVars, sigVars, ctlVars, beatVars>>

\* protocol.rs:39-46  the peer's write_to writes the JSON text and returns
FramePeerWriteData ==
  /\ fwst = "data"
  /\ fwire' = fwire \o to_string(fsent[Len(fsent)])
  /\ fwst' = "idle"
  /\ UNCHANGED <<fsent, fpos, fheld, fstage, flen, fgot, fst>>
  /\ UNCHANGED <<allocVars, srvVars, cliVars, loopVars, protoVars, pumpVars, sigVars, ctlVars, beatVars>>

\* protocol.rs:52-60  read_u32_le is polled: it takes the bytes there are, up
\* to four, into the future; with the fourth the length is known and checked,
\* and the same poll goes on to the payload if bytes of it are there
FrameReadLen ==
  /\ fst = "loop"
  /\ fstage = "len"
  /\ Unread > 0
  /\ LET n == Min(Unread, 4 - Len(fheld))
         b == fheld \o Take(n)
     IN  /\ fpos' = fpos + n
         /\ IF Len(b) < 4
            THEN /\ fheld' = b
                 /\ UNCHANGED <<fstage, flen, fst>>
            ELSE /\ fheld' = <<>>
                 /\ flen' = read_u32_le(b)
                 /\ IF TooLarge(read_u32_le(b))
                    THEN fst' = "error" /\ fstage' = fstage
                    ELSE /\ fstage' = "data"
                         /\ fst' = IF Unread > n \/ read_u32_le(b) = 0
                                   THEN "polling" ELSE "loop"
  /\ UNCHANGED <<fsent, fwire, fwst, fgot>>
  /\ UNCHANGED <<allocVars, srvVars, cliVars, loopVars, protoVars, pumpVars, sigVars, ctlVars, beatVars>>

\* protocol.rs:63-76  read_exact is polled: it takes the bytes there are, up
\* to len, into the buffer of the future; the full payload is decoded and
\* read_from returns the message, or the error
FrameReadData ==
  /\ fst \in {"loop", "polling"}
  /\ fstage = "data"
  /\ Unread > 0 \/ flen = 0
  /\ LET n == Min(Unread, flen - Len(fheld))
         b == fheld \o Take(n)
     IN  /\ fpos' = fpos + n
         /\ IF Len(b) < flen
            THEN /\ fheld' = b
                 /\ fst' = "loop"
                 /\ UNCHANGED <<fstage, flen, fgot>>
            ELSE /\ fheld' = <<>>
                 /\ flen' = 0
                 /\ fstage' = "len"
                 /\ IF from_str(b) = NoMessage
                    THEN fst' = "error" /\ fgot' = fgot
                    ELSE fst' = "loop" /\ fgot' = Append(fgot, from_str(b))
  /\ UNCHANGED <<fsent, fwire, fwst>>
  /\ UNCHANGED <<allocVars, srvVars, cliVars, loopVars, protoVars, pumpVars, sigVars, ctlVars, beatVars>>

\* what is left of a pending read_from when its select completes with
\* another arm: the future is dropped with the bytes and the length it holds
\* (client.rs:134, server.rs:192: read_from is built anew in each iteration)
LostOnDrop(held) == <<>>

\* client.rs:169-174, server.rs:209-222  the select completes with the tick
\* arm or the ctrl_q arm while read_from, polled before, is pending in the
\* middle of a frame: the loop goes round and builds a new read_from
FrameOtherArm ==
  /\ fst = "loop"
  /\ fstage = "data" \/ fheld # <<>>
  /\ fheld' = LostOnDrop(fheld)
  /\ fstage' = "len"
  /\ flen' = 0
  /\ UNCHANGED <<fsent, fwire, fwst, fpos, fgot, fst>>
  /\ UNCHANGED <<allocVars, srvVars, cliVars, loopVars, protoVars, pumpVars, sigVars, ctlVars, beatVars>>

NextFrame ==
  \/ \E m \in FrameMessages : FramePeerWriteLen(m)
  \/ FramePeerWriteData
  \/ FrameReadLen
  \/ FrameReadData
  \/ FrameOtherArm

SpecFrame == Init /\ [][NextFrame]_vars

\* ------------------------------------------------------------------ claims

\* C6: if 60 s elapse on an established client control channel without any
\* frame being received, the control loop exits with HeartbeatTimeout, even
\* though its own heartbeat timer keeps firing and its writes keep succeeding:
\* the loop is never found running with more than 60 s of silence behind it.
C6_SilenceEndsLoop ==
  lpc = "loop" => silent <= HEARTBEAT_TIMEOUT

\* client k runs its control loop on an established session of the server
Established(k) ==
  /\ cpc[k] = "loop"
  /\ copen[cconn[k]]
  /\ spc[cconn[k]] = "loop"

\* C1: for an established session whose client is alive and whose local
\* service accepts connections, a visitor accepted on the public port is
\* paired with a data channel of that client and is not dropped by the 10 s
\* pairing timeout.
C1_VisitorNotDroppedByTimeout ==
  [][\A c \in Conns :
       (apc[c] = "wait" /\ vst'[avis[c]] = "timedout")
         => ~ \E k \in Clients : Established(k) /\ cconn[k] = c]_vars

\* C2: whenever the control loop started by start_tunnel is established, the
\* server's public listener for that control channel is on the port the
\* tunnel handle reports.
C2_ReportedPortIsServed ==
  \A k \in Clients :
    Established(k) =>
      /\ aport[cconn[k]] = tport[k]
      /\ apc[cconn[k]] \in {"accept", "wait"}

\* C3: once the control channel loop of a session has exited, the session's
\* public listener is closed (no visitor is accepted on it any more).
C3_ListenerClosedAfterExit ==
  \A c \in Conns :
    (spc[c] = "done" /\ aport[c] # NoPort) => apc[c] = "stopped"

\* the step in which the server answers the TunnelRequest of connection c
AnswersRequest(c) ==
  /\ spc[c] = "first"
  /\ first[c] = "TunnelRequest"
  /\ spc'[c] # "first"

\* the session of c0 is closed and its port released, and every other port of
\* the range is held by a session whose control loop runs
OnlyClosedPortLeft(c0) ==
  /\ spc[c0] = "done"
  /\ aport[c0] # NoPort
  /\ aport[c0] \notin allocated
  /\ \A p \in Range \ {aport[c0]} :
       \E c1 \in Conns : spc[c1] = "loop" /\ aport[c1] = p /\ p \in allocated

\* C4: after a session closes, its port is releasable and rebindable: if every
\* other port is held by live sessions, a TunnelRequest arriving after the
\* close is assigned the closed session's port and the listener is bound on it.
C4_ClosedPortReassigned ==
  [][\A c, c0 \in Conns :
       (AnswersRequest(c) /\ copen[c] /\ OnlyClosedPortLeft(c0))
         => /\ spc'[c] = "loop"
            /\ aport'[c] = aport[c0]
            /\ apc'[c] = "accept"]_vars

\* C5: on every path by which the control-channel task returns after its
\* session was registered, the session entry has been removed from the
\* sessions map and its port released from the busy set.
C5_CleanupBeforeReturn ==
  [][\A c \in Conns :
       (spc[c] = "loop" /\ spc'[c] = "done")
         => /\ clients'[addr[c]] # c
            /\ aport[c] \notin allocated']_vars

\* no port of the range can be allocated: each is busy or does not bind
NoPortFree == \A p \in Range : p \in allocated \/ p \in BoundPorts

\* C7: when a TunnelRequest arrives while no port can be allocated, that
\* connection is closed with no session registered, no TunnelResponse sent and
\* the busy set unchanged; every existing session stays established and the
\* accept loop keeps serving.
C7_AllocFailureIsLocal ==
  [][\A c \in Conns :
       (AnswersRequest(c) /\ NoPortFree)
         => /\ spc'[c] = "done"
            /\ clients' = clients
            /\ allocated' = allocated
            /\ s2c' = s2c
            /\ aport' = aport
            /\ apc' = apc
            /\ \A c2 \in Conns \ {c} : spc'[c2] = spc[c2]
            /\ serverUp']_vars

\* a request was turned down for want of a port while a session is
\* established, and the server is still accepting
C7_Witness ==
  \E c, c1 \in Conns :
    /\ spc[c] = "done" /\ first[c] = "TunnelRequest" /\ aport[c] = NoPort
    /\ copen[c]
    /\ NoPortFree
    /\ spc[c1] = "loop" /\ clients[addr[c1]] = c1 /\ copen[c1]
    /\ serverUp

\* C8: after any sequence of allocate and release calls, every port that
\* allocate returned and that has not been released since lies in [lo, hi) and
\* is in the busy set, and the busy set holds no port outside the range.
C8_AllocatedInRange ==
  /\ \A p \in allocated : PORT_RANGE_START <= p /\ p < PORT_RANGE_END
  /\ \A p \in DOMAIN outstanding :
       outstanding[p] > 0 =>
         /\ PORT_RANGE_START <= p /\ p < PORT_RANGE_END
         /\ p \in allocated

\* a port is held by a caller while another one was released before
C8_Witness ==
  \E p \in Range : outstanding[p] > 0 /\ freed # {} /\ p \in allocated

\* C9: two allocate calls running concurrently never both return the same
\* port: a port is returned again only after a release of that port.
C9_NoDoubleAllocation ==
  \A p \in DOMAIN outstanding : outstanding[p] <= 1

\* two callers hold the results of their calls at once, the second of which
\* had to wait for the first one's lock
C9_Witness ==
  \E t1, t2 \in Callers :
    /\ t1 # t2
    /\ kpc[t1] = "ok" /\ kpc[t2] = "ok"
    /\ res[t1] # res[t2]
    /\ outstanding[res[t1]] = 1 /\ outstanding[res[t2]] = 1

\* the step by which allocate() of t returns Ok / bails
AllocReturnsOk(t) == kpc[t] = "probe" /\ kpc'[t] = "ok"
AllocFails(t) == kpc[t] = "scan" /\ kpc'[t] = "err"

\* what C10 says of a successful and of a failing call, but for its last clause
C10_Core(t) ==
  /\ AllocReturnsOk(t) =>
       /\ res'[t] \in Range
       /\ res'[t] \notin allocated
       /\ res'[t] \notin osBound
       /\ allocated' = allocated \cup {res'[t]}
       /\ \A q \in PORT_RANGE_START .. (res'[t] - 1) :
            q \in allocated \/ q \in failed[t]
  /\ AllocFails(t) =>
       /\ allocated' = allocated
       /\ \A q \in Range : q \in allocated \/ q \in failed[t]

\* C10 (as amended): allocate returns the lowest port of the range that is
\* neither busy nor failing its bind probe and adds exactly that port to the
\* busy set; it fails exactly when every port of the range is busy or failed
\* its probe, leaving the busy set unchanged; after a busy port was released it
\* succeeds again unless the probe of every released port fails.
C10_AllocateLowestFree ==
  [][\A t \in Callers :
       /\ C10_Core(t)
       /\ AllocFails(t) => \A q \in freed : q \in failed[t]]_vars

\* an allocate() has failed although a busy port had been released before it
C10_Witness ==
  \E t \in Callers : kpc[t] = "err" /\ freed # {} /\ freed \subseteq failed[t]

\* C10 as stated: once one of the busy ports has been released, allocate
\* succeeds again (no call fails while a released port is not allocated again).
C10_Original ==
  [][\A t \in Callers :
       /\ C10_Core(t)
       /\ AllocFails(t) => freed = {}]_vars

\* the step by which release() of t returns
ReleaseReturns(t) == kpc[t] = "idle" /\ kpc'[t] = "released"

\* C11: release(P) leaves the busy set equal to the previous busy set minus P
\* and changes nothing else (no other port, not the lock, no other caller);
\* after it P is not in the busy set; a release of a port that is not busy (a
\* second release, a port never allocated) leaves the busy set as it was.
C11_ReleaseRemovesOnlyP ==
  [][\A t \in Callers :
       ReleaseReturns(t) =>
         /\ allocated' = allocated \ {cur'[t]}
         /\ cur'[t] \notin allocated'
         /\ cur'[t] \notin allocated => allocated' = allocated
         /\ osBound' = osBound
         /\ lockHolder' = lockHolder
         /\ \A u \in Callers \ {t} : kpc'[u] = kpc[u] /\ res'[u] = res[u]]_vars

\* a busy port was released while another port stays busy, and a port that was
\* never allocated was released too
C11_Witness ==
  \E t1, t2 \in Callers :
    /\ t1 # t2
    /\ kpc[t1] = "released" /\ cur[t1] \in freed
    /\ kpc[t2] = "released" /\ cur[t2] = OutsidePort
    /\ allocated # {}

\* C12: for every message m of the four variants, with any u16 field value,
\* read_from on the bytes written by write_to(m) returns m and takes exactly
\* the bytes write_to wrote, whatever follows them on the stream.
C12_RoundTrip ==
  pin.kind = "msg" =>
    /\ rpc \in {"idle", "start", "len", "payload", "ok"}
    /\ rpc = "ok" => (rmsg = pin.msg /\ rpos = wlen)

\* a TunnelRequest with the largest u16, followed by another frame, was read back
C12_Witness ==
  /\ pin.kind = "msg" /\ pin.msg = TunnelRequest(65535) /\ pin.trail # <<>>
  /\ rpc = "ok" /\ rmsg = pin.msg /\ rpos < Len(wire)

\* C13: a frame whose declared length is over 1 MiB is rejected after the four
\* length bytes were read and no payload byte; a declared length of exactly
\* 1 MiB passes the size guard.
C13_SizeGuard ==
  /\ rpc = "toolarge" => (rlen > 1048576 /\ rpos = 4)
  /\ (rpc \in {"payload", "ok", "badjson", "eof"} /\ rpos >= 4) => rlen <= 1048576
  /\ (rlen = 1048576 /\ rpos >= 4) => rpc # "toolarge"

\* a length of 1 MiB + 1 was refused with payload bytes left unread
C13_Witness ==
  rpc = "toolarge" /\ rlen = 1048577 /\ rpos = 4 /\ fill > 0

\* b is the beginning of a
IsPrefix(b, a) == Len(b) <= Len(a) /\ SubSeq(a, 1, Len(b)) = b

\* C14: the pump preserves the byte order in each direction, and when a side
\* has written and closed (EOF), every byte the other side wrote before that
\* close is delivered once the pump has ended.
C14_PumpDeliversAll ==
  /\ \A x \in Sides : IsPrefix(pdlv[x], psent[Other(x)])
  /\ pump = "done" =>
       \A x \in Sides :
         (pclosed[x] = "eof" /\ pclosed[Other(x)] # "reset")
           => Len(pdlv[x]) >= pmark[Other(x)]

\* C15: a visitor for which no data channel arrives within 10 seconds is
\* dropped without pairing and nothing else changes: the session stays
\* registered, its port allocated, the control tasks where they are, and the
\* acceptor goes back to accepting.
C15_PairingTimeoutIsLocal ==
  [][\A c \in Conns :
       (apc[c] = "wait" /\ vst'[avis[c]] = "timedout")
         => /\ clients' = clients
            /\ allocated' = allocated
            /\ aport' = aport
            /\ spc' = spc
            /\ vdc' = vdc
            /\ apc'[c] = "accept"
            /\ \A c2 \in Conns \ {c} : apc'[c2] = apc[c2]]_vars

\* a visitor was timed out and its session is still registered and running,
\* with its port busy and its acceptor accepting
C15_Witness ==
  \E c \in Conns, v \in Visitors :
    /\ vst[v] = "timedout"
    /\ spc[c] = "loop" /\ clients[addr[c]] = c /\ aport[c] \in allocated
    /\ apc[c] = "accept"

\* C18: a control channel whose setup fails after its port was allocated (the
\* bind fails, the write of TunnelResponse fails) returns with the port
\* released: the port is not in the busy set once the task has returned.
C18_SetupFailureReleasesPort ==
  [][\A c \in Conns :
       (/\ AnswersRequest(c)
        /\ AllocateResult(allocated, BoundPorts) # NoPort
        /\ spc'[c] = "done")
         => AllocateResult(allocated, BoundPorts) \notin allocated']_vars

\* what handle_data_channel does with connection c (server.rs:249-265)
TreatedAsDataChannel(c) ==
  IF clients[addr[c]] # NoConn /\ apc[clients[addr[c]]] \in {"accept", "wait"}
  THEN /\ spc'[c] = "queued"
       /\ data_q'[clients[addr[c]]] = Append(data_q[clients[addr[c]]], c)
  ELSE spc'[c] = "done"

\* C19: the server tells the role of a connection by its first frame: a
\* TunnelRequest starts a control channel, any other frame makes it a data
\* channel, and a connection whose first-frame read times out after 10 s is
\* treated as a data channel too (looked up and queued), not discarded.
C19_RoleByFirstFrame ==
  [][\A c \in Conns :
       (spc[c] = "first" /\ spc'[c] # "first")
         => /\ first[c] = "TunnelRequest" =>
                 (spc'[c] = "done" \/ (spc'[c] = "loop" /\ clients'[addr[c]] = c))
            /\ first[c] = "frame" => TreatedAsDataChannel(c)
            /\ (first[c] = "none" /\ fexp[c] /\ copen[c]) => TreatedAsDataChannel(c)]_vars

\* the queued streams of every session
Queued == UNION {StreamsOf(data_q[c]) : c \in Conns}

C16_SigintTerminates == sigint ~> (mpc = "exited")

\* C17: once the shutdown signal has been sent to run_client, run_client
\* returns Ok in the end, whether it is connecting, established or sleeping,
\* and no tunnel establishment is completed by an attempt begun after the
\* signal (an attempt in flight may still find its TunnelResponse in the poll
\* that sees the signal).
C17_ShutdownWins ==
  /\ tunSig ~> (rc = "returned")
  /\ [][(tunSig /\ rc \in {"sleeping", "returned"}) =>
          rc' \in {"sleeping", "returned"}]_vars

\* the signal was sent, run_client has returned with the server unreachable and
\* no establishment since, and main has returned after it
C17_Witness ==
  tunSig /\ rc = "returned" /\ mpc = "exited" /\ sigint /\ ~reach /\ ~estAfter

\* C17 as stated: no tunnel establishment completes after the signal
C17_Original ==
  /\ tunSig ~> (rc = "returned")
  /\ [][tunSig => ~(rc # "loop" /\ rc' = "loop")]_vars

\* C21: while a session is registered in the sessions map and its control
\* loop runs, exactly one public listener is bound on its assigned port.
C21_ListenerWhileEstablished ==
  \A c \in Conns :
    (addr[c] \in Addrs /\ clients[addr[c]] = c /\ spc[c] = "loop") =>
      Cardinality({d \in Conns : apc[d] \in {"accept", "wait"} /\ aport[d] = aport[c]}) = 1

\* the session on whose data_q the data channel d was queued: the entry of
\* the sessions map under d's address (server.rs:249-254)
SessionOf(d) == clients[addr[d]]

\* C25: a visitor is paired only with a data channel opened in response to
\* its own CreateDataChannel request, hence with one opened by the client of
\* the session that accepted the visitor, the only reader of that request.
C25_PairedWithOwnDataChannel ==
  \A v \in Visitors :
    (vst[v] = "paired" /\ SessionOf(vdc[v]) # NoConn) =>
      /\ owner[vdc[v]] # NoClient
      /\ owner[vdc[v]] = owner[SessionOf(vdc[v])]

\* the frames written in full on the control socket, in order
RECURSIVE FramesOf(_)
FramesOf(w) ==
  IF Len(w) < 2 THEN <<>>
  ELSE <<w[2].fr>> \o FramesOf(SubSeq(w, 3, Len(w)))

\* the visitors of the CreateDataChannel frames of a sequence, in order
RECURSIVE RequestsOf(_)
RequestsOf(fs) ==
  IF fs = <<>> THEN <<>>
  ELSE IF Head(fs).type = "CreateDataChannel"
       THEN <<Head(fs).arg>> \o RequestsOf(Tail(fs))
       ELSE RequestsOf(Tail(fs))

\* the request the control loop is writing, if it is writing one
RequestInHand == IF wfr.type = "CreateDataChannel" THEN <<wfr.arg>> ELSE <<>>

C23_HeartbeatsBounded == bc2s + bs2c < MaxFlight

\* C24: whatever the select interleaving, the frames the peer wrote are
\* decoded as the same messages in the same order: no read of a frame the
\* peer wrote fails, and the messages returned are the first ones written.
C24_FramesSurviveSelect ==
  /\ fst # "error"
  /\ Len(fgot) <= Len(fsent)
  /\ fgot = SubSeq(fsent, 1, Len(fgot))

====
